---- MODULE Spec2Model ----
(***************************************************************************)
(* Tour Guide: tempo-controlled junction dispatch (JunctionOrchestrator    *)
(* and TempoController) and the per-junction aggregation into a            *)
(* FinalReport (AgentOrchestrator).                                        *)
(*                                                                         *)
(* A route is represented by its junctions 0..n-1; a junction is its index *)
(* in the route.  Wall-clock time is abstract: a sleep ends at some later  *)
(* step, and a bounded join either sees the joined thread finished or      *)
(* gives up while that thread is still alive.  The calls start(), pause(),  *)
(* resume() and stop() made from outside the dispatch loop come one at a   *)
(* time (ctl); an observer may call stop() from inside its callback.       *)
(***************************************************************************)
EXTENDS Integers, Sequences, FiniteSets, TLC

\* Longest route that is started (number of junctions).
MaxJunctions == 2

\* Number of start() / pause() / resume() / stop() calls in one behaviour.
\* Each start() has its own dispatch loop, so this bounds the loops too.
MaxCalls == 3

\* Number of calls in one behaviour of the Aggregator (AggSpec).
AggMaxCalls == 2

\* The observers registered on the Dispatcher, in registration order: a "user"
\* callback returns normally, a "faulty" one raises on every event.
Registered == <<"user", "faulty", "user">>

\* The callback list of a Dispatcher owned by an AgentOrchestrator: its
\* constructor registers _handle_junction_event ("agg").
AggRegistered == <<"agg">>

LoopIds == 1..(IF MaxCalls > AggMaxCalls THEN MaxCalls ELSE AggMaxCalls)

\* The contestant kinds (AgentType of the three contestants).
Kinds == {"video", "music", "history"}

Routes == 1..MaxJunctions

VARIABLES
    state,          \* JunctionOrchestrator._state
    stop_event,     \* JunctionOrchestrator._stop_event (set / clear)
    is_paused,      \* TempoController._is_paused
    current_route,  \* JunctionOrchestrator._current_route: 0 (None) or its junction count
    current_index,  \* JunctionOrchestrator._current_index
    stats,          \* JunctionOrchestrator._stats (dispatched_count, error_count)
    thread,         \* JunctionOrchestrator._thread: 0 (None) or the loop it runs
    callbacks,      \* JunctionOrchestrator._callbacks, in registration order
    loops,          \* one record per dispatch loop (_run_sync activation)
    nstarts,        \* start() calls so far
    calls,          \* history: the calls made so far, each with whether it took effect
    ctl,            \* position of the thread calling pause() / resume() / stop()
    obsLog,         \* per observer and loop: the events it was handed, in order
    stopped,        \* per loop: "no", "called" (stop() began while it was live), "returned"
    final_report,   \* AgentOrchestrator._final_report: 0 (None) or a report of `reports`
    reports,        \* the FinalReport objects created so far, one per Aggregator start()
    active_threads, \* AgentOrchestrator._active_threads: processing units, in spawn order
    units,          \* every processing unit spawned so far (_process_junction_thread)
    results_lock,   \* AgentOrchestrator._results_lock: 0 (free) or the unit holding it
    starters,       \* per loop: where the caller of a blocking Aggregator start() is
    results_queue,  \* JunctionProcessor._results_queue: the queue object it names
    queues,         \* the queue objects: 0 from the constructor, j made by invocation j
    invs,           \* the process() invocations: position and returned JunctionResults
    workers,        \* the contestant threads (_agent_worker) of each invocation
    contestants,    \* the list handed to JudgeAgent.evaluate
    decision,       \* what JudgeAgent.evaluate gave for it: <<>> before the call
    clock,          \* the wall clock, and the time the tempo was paused since its start()
    config,         \* OrchestratorConfig: interval, time_scale, lookahead_count
    tempo,          \* TempoController: _start_time, _pause_time, _paused_duration
    run,            \* a timed run: the Dispatcher's construction, its schedule and events
    batch,          \* one process_batch call: its pool of workers and its result list
    joins           \* one process() call seen on the clock: the joins of its contestants

dispVars == <<state, stop_event, is_paused, current_route, current_index, stats,
              thread, callbacks, loops, nstarts, calls, ctl, obsLog, stopped>>

aggVars == <<final_report, reports, active_threads, units, results_lock, starters>>

evalVars == <<results_queue, queues, invs, workers, contestants, decision>>

timeVars == <<clock, config, tempo, run>>

vars == <<dispVars, aggVars, evalVars, timeVars, batch, joins>>

\* Concurrent process() invocations on one JunctionProcessor.
MaxInvocations == 2

Invocations == 1..MaxInvocations

\* JunctionProcessor.QUEUE_SIZE
QUEUE_SIZE == 3

\* A JunctionResults as process() creates it: no slot filled, no decision.
NewJunctionResults ==
    [slots |-> [k \in Kinds |-> <<>>], errors |-> <<>>, decision |-> <<>>,
     is_complete |-> FALSE, collected |-> <<>>]

\* A JunctionProcessor after its constructor with no process() under way, and
\* a Judge that has not been called.
EvalIdle ==
    /\ results_queue = 0
    /\ queues = [q \in 0..MaxInvocations |-> <<>>]
    /\ invs = [j \in Invocations |-> [pc |-> "idle", pushed |-> {}, result |-> NewJunctionResults]]
    /\ workers = [j \in Invocations |->
                    [k \in Kinds |-> [pc |-> "none", q |-> 0, outcome |-> "none"]]]
    /\ contestants = <<>>
    /\ decision = <<>>

\* OrchestratorConfig() with its defaults; one unit of time is the default
\* interval.
DefaultConfig == [junction_interval_seconds |-> 1, time_scale |-> 1, lookahead_count |-> 1]

\* The value None of _start_time and _pause_time (instants are 0 or more).
NoTime == -1

\* TempoController.__init__
NewTempo == [start_time |-> NoTime, pause_time |-> NoTime, paused_duration |-> 0]

NoRun == [pc |-> "idle", sched |-> <<>>, pos |-> 1, events |-> <<>>]

\* No process_batch call.
NoBatch ==
    [pc |-> "none", max_concurrent |-> 1, on_complete |-> "none", jobs |-> <<>>,
     results |-> <<>>, order |-> <<>>]

\* No process() call followed on the clock.
NoJoins ==
    [pc |-> "none", timeout |-> 0, start_timer |-> 0, k |-> 1, deadline |-> 0,
     alive |-> {}, granted |-> <<>>]

\* A Dispatcher built with the default configuration, the clock not followed.
TimeIdle ==
    /\ clock = [now |-> 0, paused |-> 0]
    /\ config = DefaultConfig
    /\ tempo = NewTempo
    /\ run = NoRun
    /\ batch = NoBatch
    /\ joins = NoJoins

----------------------------------------------------------------------------
(* Scheduler *)

\* TempoController.generate_schedule: the junction indices in the order the
\* dispatch loop walks them (enumerate(junctions)).
GenerateScheduleFromOne(n) == [k \in 1..n |-> k]

GenerateSchedule(n) == [k \in 1..n |-> k - 1]

\* A fresh OrchestratorStats().
NewStats == [dispatched_count |-> 0, error_count |-> 0]

\* A rational number num/den, for progress_percent.
Ratio(num, den) == [num |-> num, den |-> den]

\* JunctionOrchestrator._create_event: the event for junction `index`, built
\* from the route that is current when the event is created.
CreateEvent(index, route) ==
    [junction_index      |-> index,
     total_junctions     |-> route,
     is_first            |-> (index = 0),
     is_last             |-> (index = route - 1),
     progress_percent    |-> IF route > 0 THEN Ratio(index * 100, route) ELSE Ratio(0, 1),
     remaining_junctions |-> route - index - 1]

----------------------------------------------------------------------------
(* Dispatcher *)

Alive(r) == loops[r].pc \notin {"none", "exited"}

ThreadAlive == thread # 0 /\ Alive(thread)

\* One entry of the call history.
Call(op, effect) == [op |-> op, effect |-> effect]

NoLoop == [pc |-> "none", sched |-> <<>>, pos |-> 1, blocking |-> FALSE]

\* JunctionOrchestrator.__init__ followed by the registration of `cbs`, and an
\* AgentOrchestrator that has no report yet.
InitWith(cbs) ==
    /\ state = "idle"
    /\ stop_event = FALSE
    /\ is_paused = FALSE
    /\ current_route = 0
    /\ current_index = 0
    /\ stats = NewStats
    /\ thread = 0
    /\ callbacks = cbs
    /\ loops = [r \in LoopIds |-> NoLoop]
    /\ nstarts = 0
    /\ calls = <<>>
    /\ ctl = "idle"
    /\ obsLog = [o \in DOMAIN cbs |-> [r \in LoopIds |-> <<>>]]
    /\ stopped = [r \in LoopIds |-> "no"]
    /\ final_report = 0
    /\ reports = <<>>
    /\ active_threads = <<>>
    /\ units = <<>>
    /\ results_lock = 0
    /\ starters = [r \in LoopIds |-> "none"]

Init == InitWith(Registered) /\ EvalIdle /\ TimeIdle

\* The calls one behaviour may make.
CallBudget == IF "agg" \in {callbacks[o] : o \in DOMAIN callbacks} THEN AggMaxCalls ELSE MaxCalls

\* JunctionOrchestrator.start(route, blocking) when it is not refused: the
\* state is not Running.  With blocking the caller runs the loop itself and
\* _thread is left as it was.
StartRun(n, blocking) ==
    /\ state # "running"
    /\ calls' = Append(calls, Call("start", TRUE))
    /\ current_route' = n
    /\ current_index' = 0
    /\ state' = "running"
    /\ stop_event' = FALSE
    /\ stats' = NewStats
    /\ nstarts' = nstarts + 1
    /\ loops' = [loops EXCEPT ![nstarts + 1] =
                    [pc |-> "init", sched |-> <<>>, pos |-> 1, blocking |-> blocking]]
    /\ thread' = IF blocking THEN thread ELSE nstarts + 1
    /\ UNCHANGED <<is_paused, callbacks, ctl, obsLog, stopped>>

\* start() on a Dispatcher used on its own.
Start(n, blocking) ==
    /\ ctl = "idle"
    /\ Len(calls) < CallBudget
    /\ StartRun(n, blocking)
    /\ UNCHANGED <<aggVars, evalVars, timeVars, batch, joins>>

\* _run_sync up to the loop: reads the current route, builds the schedule;
\* generate_schedule calls TempoController.start(), which clears _is_paused.
LoopBegin(r) ==
    /\ loops[r].pc = "init"
    /\ loops' = [loops EXCEPT ![r].pc = "top",
                              ![r].sched = GenerateSchedule(current_route)]
    /\ is_paused' = FALSE
    /\ UNCHANGED <<state, stop_event, current_route, current_index, stats, thread,
                   callbacks, nstarts, calls, ctl, obsLog, stopped>>
    /\ UNCHANGED <<aggVars, evalVars, timeVars, batch, joins>>

\* Head of the for loop: schedule exhausted, or the stop signal seen: leave the loop.
LoopTop(r) ==
    /\ loops[r].pc = "top"
    /\ loops' = [loops EXCEPT ![r].pc =
                    IF loops[r].pos > Len(loops[r].sched) \/ stop_event
                    THEN "finish" ELSE "pause"]
    /\ UNCHANGED <<state, stop_event, is_paused, current_route, current_index, stats,
                   thread, callbacks, nstarts, calls, ctl, obsLog, stopped>>
    /\ UNCHANGED <<aggVars, evalVars, timeVars, batch, joins>>

\* The pause poll: spins while the state is Paused; a stop signal leaves the
\* poll only (the inner break), and the iteration goes on to wait_until.
LoopPausePoll(r) ==
    /\ loops[r].pc = "pause"
    /\ state # "paused" \/ stop_event
    /\ loops' = [loops EXCEPT ![r].pc = "wait"]
    /\ UNCHANGED <<state, stop_event, is_paused, current_route, current_index, stats,
                   thread, callbacks, nstarts, calls, ctl, obsLog, stopped>>
    /\ UNCHANGED <<aggVars, evalVars, timeVars, batch, joins>>

\* TempoController.wait_until, first part: spins while the tempo is paused.
LoopWaitUnpaused(r) ==
    /\ loops[r].pc = "wait"
    /\ ~is_paused
    /\ loops' = [loops EXCEPT ![r].pc = "sleep"]
    /\ UNCHANGED <<state, stop_event, is_paused, current_route, current_index, stats,
                   thread, callbacks, nstarts, calls, ctl, obsLog, stopped>>
    /\ UNCHANGED <<aggVars, evalVars, timeVars, batch, joins>>

\* TempoController.wait_until, second part: the target time is reached (at
\* once, or when time.sleep(delay) returns).  Nothing is checked on waking.
LoopSleepDone(r) ==
    /\ loops[r].pc = "sleep"
    /\ loops' = [loops EXCEPT ![r].pc = "dispatch"]
    /\ UNCHANGED <<state, stop_event, is_paused, current_route, current_index, stats,
                   thread, callbacks, nstarts, calls, ctl, obsLog, stopped>>
    /\ UNCHANGED <<aggVars, evalVars, timeVars, batch, joins>>

\* Live loops, marked when a stop() begins.
MarkStopped(old, how) ==
    [q \in LoopIds |-> IF Alive(q) /\ (how = "returned" \/ old[q] = "no") THEN how ELSE old[q]]

\* The callbacks that raise when they are called.
Raisers(cbs) == {o \in DOMAIN cbs : cbs[o] = "faulty"}

\* _dispatch_event, the loop over self._callbacks from position k on: the
\* callbacks invoked, in invocation order.  An exception of a callback is
\* caught inside the loop body, so the loop goes on to the next callback.
RECURSIVE InvokedUntilRaise(_, _)
InvokedUntilRaise(cbs, k) ==
    IF k > Len(cbs) THEN <<>>
    ELSE IF k \in Raisers(cbs) THEN <<k>>
    ELSE <<k>> \o InvokedUntilRaise(cbs, k + 1)

RECURSIVE InvokedFrom(_, _)
InvokedFrom(cbs, k) ==
    IF k > Len(cbs) THEN <<>> ELSE <<k>> \o InvokedFrom(cbs, k + 1)

Invoked(cbs) == InvokedFrom(cbs, 1)

\* The invoked callbacks that raise: each adds one to error_count.
Failing(cbs) == {k \in DOMAIN Invoked(cbs) : Invoked(cbs)[k] \in Raisers(cbs)}

\* _dispatch_event: every callback invoked is handed the event.
Deliver(log, r, event) ==
    [o \in DOMAIN log |->
        IF \E k \in DOMAIN Invoked(callbacks) : Invoked(callbacks)[k] = o
        THEN [log[o] EXCEPT ![r] = Append(@, event)]
        ELSE log[o]]

\* AgentOrchestrator._handle_junction_event, once per "agg" callback: a new
\* processing unit for the event is appended to _active_threads and started.
NewUnit(r, event) ==
    [pc |-> "process", run |-> r, index |-> event.junction_index,
     is_last |-> event.is_last, rep |-> 0, result |-> <<>>]

SpawnedNone(r, event) == <<>>

Spawned(r, event) ==
    IF \E o \in DOMAIN callbacks : callbacks[o] = "agg" THEN <<NewUnit(r, event)>> ELSE <<>>

\* One iteration's body after the wait: create the event, hand it to the
\* observers, count it.  With `obsStop` a user callback calls stop() from
\* inside its call (on the loop's own thread).
LoopDispatch(r, obsStop) ==
    /\ loops[r].pc = "dispatch"
    /\ obsStop => /\ \E o \in DOMAIN callbacks : callbacks[o] = "user"
                  /\ Len(calls) < CallBudget
                  /\ ~(ThreadAlive /\ thread # r)
    /\ calls' = IF obsStop THEN Append(calls, Call("stop", TRUE)) ELSE calls
    /\ LET index   == loops[r].sched[loops[r].pos]
           event   == CreateEvent(index, current_route)
           selfJoin == obsStop /\ thread = r
           \* stop() on the loop's own thread: join raises, the callback fails
           errors  == Cardinality(Failing(callbacks)) + (IF selfJoin THEN 1 ELSE 0)
       IN /\ current_index' = index
          /\ obsLog' = Deliver(obsLog, r, event)
          /\ stop_event' = (stop_event \/ obsStop)
          /\ state' = IF obsStop /\ ~selfJoin THEN "idle" ELSE state
          /\ stopped' = IF obsStop
                        THEN MarkStopped(stopped, IF selfJoin THEN "called" ELSE "returned")
                        ELSE stopped
          /\ stats' = [dispatched_count |-> stats.dispatched_count + 1,
                       error_count      |-> stats.error_count + errors]
          /\ loops' = [loops EXCEPT ![r].pc = "top", ![r].pos = @ + 1]
          /\ units' = units \o Spawned(r, event)
          /\ active_threads' = active_threads \o
                 [k \in 1..Len(Spawned(r, event)) |-> Len(units) + k]
    /\ UNCHANGED <<is_paused, current_route, thread, callbacks, nstarts, ctl>>
    /\ UNCHANGED <<final_report, reports, results_lock, starters, evalVars, timeVars, batch, joins>>

\* End of _run_sync: the state is set to Completed, however the loop was left.
LoopFinish(r) ==
    /\ loops[r].pc = "finish"
    /\ state' = "completed"
    /\ loops' = [loops EXCEPT ![r].pc = "exited"]
    /\ UNCHANGED <<stop_event, is_paused, current_route, current_index, stats, thread,
                   callbacks, nstarts, calls, ctl, obsLog, stopped>>
    /\ UNCHANGED <<aggVars, evalVars, timeVars, batch, joins>>

\* pause(), first statement: Running -> Paused (nothing otherwise).
Pause ==
    /\ ctl = "idle"
    /\ Len(calls) < CallBudget
    /\ calls' = Append(calls, Call("pause", state = "running"))
    /\ ctl' = IF state = "running" THEN "pause_tempo" ELSE "idle"
    /\ state' = IF state = "running" THEN "paused" ELSE state
    /\ UNCHANGED <<stop_event, is_paused, current_route, current_index, stats, thread,
                   callbacks, loops, nstarts, obsLog, stopped>>
    /\ UNCHANGED <<aggVars, evalVars, timeVars, batch, joins>>

\* pause(), second statement: TempoController.pause().
PauseTempo ==
    /\ ctl = "pause_tempo"
    /\ is_paused' = TRUE
    /\ ctl' = "idle"
    /\ UNCHANGED <<state, stop_event, current_route, current_index, stats, thread,
                   callbacks, loops, nstarts, calls, obsLog, stopped>>
    /\ UNCHANGED <<aggVars, evalVars, timeVars, batch, joins>>

\* resume(), first statement: Paused -> Running (nothing otherwise).
Resume ==
    /\ ctl = "idle"
    /\ Len(calls) < CallBudget
    /\ calls' = Append(calls, Call("resume", state = "paused"))
    /\ ctl' = IF state = "paused" THEN "resume_tempo" ELSE "idle"
    /\ state' = IF state = "paused" THEN "running" ELSE state
    /\ UNCHANGED <<stop_event, is_paused, current_route, current_index, stats, thread,
                   callbacks, loops, nstarts, obsLog, stopped>>
    /\ UNCHANGED <<aggVars, evalVars, timeVars, batch, joins>>

\* A resume() whose second statement leaves the Scheduler paused.
ResumeTempoKeepsPaused ==
    /\ ctl = "resume_tempo"
    /\ ctl' = "idle"
    /\ UNCHANGED <<state, stop_event, is_paused, current_route, current_index, stats, thread,
                   callbacks, loops, nstarts, calls, obsLog, stopped>>
    /\ UNCHANGED <<aggVars, evalVars, timeVars, batch, joins>>

\* resume(), second statement: TempoController.resume().
ResumeTempo ==
    /\ ctl = "resume_tempo"
    /\ is_paused' = FALSE
    /\ ctl' = "idle"
    /\ UNCHANGED <<state, stop_event, current_route, current_index, stats, thread,
                   callbacks, loops, nstarts, calls, obsLog, stopped>>
    /\ UNCHANGED <<aggVars, evalVars, timeVars, batch, joins>>

\* stop(), first statement: the stop signal is set; then the bounded join.
StopSet ==
    /\ ctl = "idle"
    /\ Len(calls) < CallBudget
    /\ calls' = Append(calls, Call("stop", TRUE))
    /\ stop_event' = TRUE
    /\ ctl' = "stop_join"
    /\ stopped' = MarkStopped(stopped, "called")
    /\ UNCHANGED <<state, is_paused, current_route, current_index, stats, thread,
                   callbacks, loops, nstarts, obsLog>>
    /\ UNCHANGED <<aggVars, evalVars, timeVars, batch, joins>>

\* Where a dispatch loop can stay for seconds: the pause poll, the two parts
\* of wait_until, and inside an observer's callback.
Lingering(r) == loops[r].pc \in {"pause", "wait", "sleep", "dispatch"}

\* stop(), after the join: there was no live background thread to join, or it
\* has exited, or the 5 s of the join are over while it lingers; then the
\* state is forced to Idle.
StopReturn ==
    /\ ctl = "stop_join"
    /\ ThreadAlive => Lingering(thread)
    /\ state' = "idle"
    /\ ctl' = "idle"
    /\ stopped' = [q \in LoopIds |-> IF stopped[q] = "called" THEN "returned" ELSE stopped[q]]
    /\ UNCHANGED <<stop_event, is_paused, current_route, current_index, stats, thread,
                   callbacks, loops, nstarts, calls, obsLog>>
    /\ UNCHANGED <<aggVars, evalVars, timeVars, batch, joins>>

LoopOf(r) ==
    \/ LoopBegin(r)
    \/ LoopTop(r)
    \/ LoopPausePoll(r)
    \/ LoopWaitUnpaused(r)
    \/ LoopSleepDone(r)
    \/ \E obsStop \in BOOLEAN : LoopDispatch(r, obsStop)
    \/ LoopFinish(r)

LoopStep == \E r \in LoopIds : LoopOf(r)

Control ==
    \/ \E n \in Routes, blocking \in BOOLEAN : Start(n, blocking)
    \/ Pause
    \/ PauseTempo
    \/ Resume
    \/ ResumeTempo
    \/ StopSet
    \/ StopReturn

Next == LoopStep \/ Control

Spec == Init /\ [][Next]_vars

\* Every thread that can take a step eventually takes one: each dispatch
\* loop, and the caller inside pause(), resume() or stop().
LiveSpec ==
    /\ Init
    /\ [][Next]_vars
    /\ \A r \in LoopIds : WF_vars(LoopOf(r))
    /\ WF_vars(PauseTempo)
    /\ WF_vars(ResumeTempo)
    /\ WF_vars(StopReturn)

----------------------------------------------------------------------------
(* Dispatcher: calls that are refused or find it Idle *)

\* start(route) when the state is Running: RuntimeError is raised by the first
\* statement, before anything is assigned.
StartRefusedResets(n) ==
    /\ ctl = "idle"
    /\ Len(calls) < CallBudget
    /\ state = "running"
    /\ calls' = Append(calls, Call("start", FALSE))
    /\ stats' = NewStats
    /\ current_index' = 0
    /\ UNCHANGED <<state, stop_event, is_paused, current_route, thread,
                   callbacks, loops, nstarts, ctl, obsLog, stopped>>
    /\ UNCHANGED <<aggVars, evalVars, timeVars, batch, joins>>

StartRefused(n) ==
    /\ ctl = "idle"
    /\ Len(calls) < CallBudget
    /\ state = "running"
    /\ calls' = Append(calls, Call("start", FALSE))
    /\ UNCHANGED <<state, stop_event, is_paused, current_route, current_index, stats,
                   thread, callbacks, loops, nstarts, ctl, obsLog, stopped>>
    /\ UNCHANGED <<aggVars, evalVars, timeVars, batch, joins>>

\* stop() entered while the state is Idle, first statement; the caller's
\* position remembers that the Dispatcher was Idle at the call.
StopIdleSet ==
    /\ ctl = "idle"
    /\ Len(calls) < CallBudget
    /\ state = "idle"
    /\ calls' = Append(calls, Call("stop", TRUE))
    /\ stop_event' = TRUE
    /\ ctl' = "stop_idle_join"
    /\ stopped' = MarkStopped(stopped, "called")
    /\ UNCHANGED <<state, is_paused, current_route, current_index, stats, thread,
                   callbacks, loops, nstarts, obsLog>>
    /\ UNCHANGED <<aggVars, evalVars, timeVars, batch, joins>>

\* That stop(), after the join (as StopReturn).
StopIdleReturn ==
    /\ ctl = "stop_idle_join"
    /\ ThreadAlive => Lingering(thread)
    /\ state' = "idle"
    /\ ctl' = "idle"
    /\ stopped' = [q \in LoopIds |-> IF stopped[q] = "called" THEN "returned" ELSE stopped[q]]
    /\ UNCHANGED <<stop_event, is_paused, current_route, current_index, stats, thread,
                   callbacks, loops, nstarts, calls, obsLog>>
    /\ UNCHANGED <<aggVars, evalVars, timeVars, batch, joins>>

CtlNext ==
    \/ Next
    \/ \E n \in Routes : StartRefused(n)
    \/ StopIdleSet
    \/ StopIdleReturn

CtlSpec == Init /\ [][CtlNext]_vars

----------------------------------------------------------------------------
(* Scheduler and Dispatcher with a clock *)

\* Last instant of the wall clock that is followed.
MaxClock == 5

\* Greatest interval configured or assigned.
MaxInterval == 2

\* The configurations a Dispatcher is constructed with, valid or not.
Configs ==
    [junction_interval_seconds : 0..MaxInterval, time_scale : 0..1, lookahead_count : 0..1]

\* OrchestratorConfig.validate: TRUE, or FALSE where it raises ValueError.
Validate(cfg) ==
    /\ cfg.junction_interval_seconds > 0
    /\ cfg.time_scale > 0
    /\ cfg.lookahead_count >= 1

Constructed == run.pc \notin {"new", "invalid"}

\* JunctionOrchestrator.__init__: config.validate() raises, or the Dispatcher
\* and its TempoController exist.
Construct ==
    /\ run.pc = "new"
    /\ run' = [run EXCEPT !.pc = IF Validate(config) THEN "idle" ELSE "invalid"]
    /\ UNCHANGED <<dispVars, aggVars, evalVars, batch, joins, clock, config, tempo>>

\* Time passes; it counts as paused time while the tempo is paused.
Tick ==
    /\ Constructed
    /\ clock.now < MaxClock
    /\ clock' = [now |-> clock.now + 1,
                 paused |-> clock.paused + (IF is_paused THEN 1 ELSE 0)]
    /\ UNCHANGED <<dispVars, aggVars, evalVars, batch, joins, config, tempo, run>>

\* TempoController.start
TempoStarted(t, now) == [t EXCEPT !.start_time = now, !.paused_duration = 0]

TempoStart ==
    /\ Constructed
    /\ tempo' = TempoStarted(tempo, clock.now)
    /\ is_paused' = FALSE
    /\ clock' = [clock EXCEPT !.paused = 0]
    /\ UNCHANGED <<state, stop_event, current_route, current_index, stats, thread,
                   callbacks, loops, nstarts, calls, ctl, obsLog, stopped>>
    /\ UNCHANGED <<aggVars, evalVars, batch, joins, config, run>>

\* TempoController.pause
TempoPausedRestamp(t, paused, now) == [t EXCEPT !.pause_time = now]

TempoPaused(t, paused, now) == IF paused THEN t ELSE [t EXCEPT !.pause_time = now]

TempoPause ==
    /\ Constructed
    /\ tempo' = TempoPaused(tempo, is_paused, clock.now)
    /\ is_paused' = TRUE
    /\ UNCHANGED <<state, stop_event, current_route, current_index, stats, thread,
                   callbacks, loops, nstarts, calls, ctl, obsLog, stopped>>
    /\ UNCHANGED <<aggVars, evalVars, batch, joins, clock, config, run>>

\* A resume() that moves the pending scheduled times on by the pause.
TempoResumeShifts ==
    /\ Constructed
    /\ is_paused /\ tempo.pause_time # NoTime
    /\ tempo' = [tempo EXCEPT
                    !.paused_duration = @ + (clock.now - tempo.pause_time),
                    !.pause_time = NoTime]
    /\ is_paused' = FALSE
    /\ run' = [run EXCEPT !.sched =
                  [k \in DOMAIN run.sched |->
                      IF k >= run.pos THEN run.sched[k] + 1 ELSE run.sched[k]]]
    /\ UNCHANGED <<state, stop_event, current_route, current_index, stats, thread,
                   callbacks, loops, nstarts, calls, ctl, obsLog, stopped>>
    /\ UNCHANGED <<aggVars, evalVars, batch, joins, clock, config>>

\* TempoController.resume
TempoResume ==
    /\ Constructed
    /\ IF is_paused /\ tempo.pause_time # NoTime
       THEN /\ tempo' = [tempo EXCEPT
                            !.paused_duration = @ + (clock.now - tempo.pause_time),
                            !.pause_time = NoTime]
            /\ is_paused' = FALSE
       ELSE UNCHANGED <<tempo, is_paused>>
    /\ UNCHANGED <<state, stop_event, current_route, current_index, stats, thread,
                   callbacks, loops, nstarts, calls, ctl, obsLog, stopped>>
    /\ UNCHANGED <<aggVars, evalVars, batch, joins, clock, config, run>>

\* TempoController.elapsed_seconds, read at instant `now`.
ElapsedSeconds(t, paused, now) ==
    IF t.start_time = NoTime THEN 0
    ELSE (now - t.start_time)
         - (IF paused /\ t.pause_time # NoTime THEN now - t.pause_time ELSE 0)
         - t.paused_duration

\* TempoController.get_dispatch_time in fixed-interval mode.
GetDispatchTime(t, junction_index, interval) == t.start_time + junction_index * interval

\* start(route) up to the dispatch loop: _run_sync materialises the whole
\* schedule, list(generate_schedule(...)), which first calls tempo.start().
RunStart(n) ==
    /\ run.pc = "idle"
    /\ tempo' = TempoStarted(tempo, clock.now)
    /\ is_paused' = FALSE
    /\ clock' = [clock EXCEPT !.paused = 0]
    /\ run' = [pc |-> "wait",
               sched |-> [k \in 1..n |->
                            GetDispatchTime(tempo', k - 1, config.junction_interval_seconds)],
               pos |-> 1, events |-> <<>>]
    /\ UNCHANGED <<state, stop_event, current_route, current_index, stats, thread,
                   callbacks, loops, nstarts, calls, ctl, obsLog, stopped>>
    /\ UNCHANGED <<aggVars, evalVars, batch, joins, config>>

\* wait_until, first part: spins while the tempo is paused.
RunWait ==
    /\ run.pc = "wait"
    /\ ~is_paused
    /\ run' = [run EXCEPT !.pc = "sleep"]
    /\ UNCHANGED <<dispVars, aggVars, evalVars, batch, joins, clock, config, tempo>>

\* wait_until, second part, and the dispatch: at the scheduled time or later
\* the event is created with that scheduled_time and the present dispatch_time.
RunDispatch ==
    /\ run.pc = "sleep"
    /\ clock.now >= run.sched[run.pos]
    /\ run' = [run EXCEPT
                 !.events = Append(@, [junction_index |-> run.pos - 1,
                                       scheduled_time |-> run.sched[run.pos],
                                       dispatch_time |-> clock.now]),
                 !.pos = @ + 1,
                 !.pc = IF run.pos + 1 > Len(run.sched) THEN "done" ELSE "wait"]
    /\ UNCHANGED <<dispVars, aggVars, evalVars, batch, joins, clock, config, tempo>>

\* The interval setter of the Dispatcher: the value is stored in the
\* configuration first; the tempo's setter then raises ValueError for a value
\* that is not positive, or stores it again in the same configuration.
SetInterval(seconds) ==
    /\ Constructed
    /\ config' = [config EXCEPT !.junction_interval_seconds = seconds]
    /\ UNCHANGED <<dispVars, aggVars, evalVars, batch, joins, clock, tempo, run>>

TempoInit ==
    /\ InitWith(<<>>)
    /\ EvalIdle
    /\ clock = [now |-> 0, paused |-> 0]
    /\ config \in Configs
    /\ tempo = NewTempo
    /\ run = [NoRun EXCEPT !.pc = "new"]
    /\ batch = NoBatch
    /\ joins = NoJoins

TempoNext ==
    \/ Construct
    \/ Tick
    \/ TempoStart
    \/ TempoPause
    \/ TempoResume
    \/ \E n \in Routes : RunStart(n)
    \/ RunWait
    \/ RunDispatch
    \/ \E seconds \in 0..MaxInterval : SetInterval(seconds)

TempoSpec == TempoInit /\ [][TempoNext]_vars

----------------------------------------------------------------------------
(* Dispatcher: the async variant (start_async) *)

\* start_async(route) up to its loop, when it is not refused: no stop flag is
\* cleared and no thread is created; the schedule is generated at once.
AsyncStart(n) ==
    /\ ctl = "idle"
    /\ Len(calls) < CallBudget
    /\ state # "running"
    /\ calls' = Append(calls, Call("start", TRUE))
    /\ current_route' = n
    /\ current_index' = 0
    /\ state' = "running"
    /\ stats' = NewStats
    /\ nstarts' = nstarts + 1
    /\ loops' = [loops EXCEPT ![nstarts + 1] =
                    [pc |-> "async_top", sched |-> GenerateSchedule(n), pos |-> 1,
                     blocking |-> TRUE]]
    /\ is_paused' = FALSE
    /\ UNCHANGED <<stop_event, thread, callbacks, ctl, obsLog, stopped>>
    /\ UNCHANGED <<aggVars, evalVars, timeVars, batch, joins>>

\* Head of the async loop: schedule exhausted, or the state is not Running:
\* leave the loop.
AsyncTop(r) ==
    /\ loops[r].pc = "async_top"
    /\ loops' = [loops EXCEPT ![r].pc =
                    IF loops[r].pos > Len(loops[r].sched) \/ state # "running"
                    THEN "async_finish" ELSE "async_sleep"]
    /\ UNCHANGED <<state, stop_event, is_paused, current_route, current_index, stats,
                   thread, callbacks, nstarts, calls, ctl, obsLog, stopped>>
    /\ UNCHANGED <<aggVars, evalVars, timeVars, batch, joins>>

\* The scheduled time is reached (at once, or when asyncio.sleep returns).
AsyncSleepDone(r) ==
    /\ loops[r].pc = "async_sleep"
    /\ loops' = [loops EXCEPT ![r].pc = "async_pause"]
    /\ UNCHANGED <<state, stop_event, is_paused, current_route, current_index, stats,
                   thread, callbacks, nstarts, calls, ctl, obsLog, stopped>>
    /\ UNCHANGED <<aggVars, evalVars, timeVars, batch, joins>>

\* The async pause poll: spins while the state is Paused.
AsyncPausePoll(r) ==
    /\ loops[r].pc = "async_pause"
    /\ state # "paused"
    /\ loops' = [loops EXCEPT ![r].pc = "async_dispatch"]
    /\ UNCHANGED <<state, stop_event, is_paused, current_route, current_index, stats,
                   thread, callbacks, nstarts, calls, ctl, obsLog, stopped>>
    /\ UNCHANGED <<aggVars, evalVars, timeVars, batch, joins>>

\* The body after the waits: create the event, hand it to the observers,
\* count it.
AsyncDispatch(r) ==
    /\ loops[r].pc = "async_dispatch"
    /\ LET index == loops[r].sched[loops[r].pos]
           event == CreateEvent(index, current_route)
       IN /\ current_index' = index
          /\ obsLog' = Deliver(obsLog, r, event)
          /\ stats' = [dispatched_count |-> stats.dispatched_count + 1,
                       error_count      |-> stats.error_count + Cardinality(Failing(callbacks))]
          /\ loops' = [loops EXCEPT ![r].pc = "async_top", ![r].pos = @ + 1]
    /\ UNCHANGED <<state, stop_event, is_paused, current_route, thread, callbacks,
                   nstarts, calls, ctl, stopped>>
    /\ UNCHANGED <<aggVars, evalVars, timeVars, batch, joins>>

\* End of start_async: the state is set to Completed.
AsyncFinish(r) ==
    /\ loops[r].pc = "async_finish"
    /\ state' = "completed"
    /\ loops' = [loops EXCEPT ![r].pc = "exited"]
    /\ UNCHANGED <<stop_event, is_paused, current_route, current_index, stats, thread,
                   callbacks, nstarts, calls, ctl, obsLog, stopped>>
    /\ UNCHANGED <<aggVars, evalVars, timeVars, batch, joins>>

AsyncLoopOf(r) ==
    \/ AsyncTop(r)
    \/ AsyncSleepDone(r)
    \/ AsyncPausePoll(r)
    \/ AsyncDispatch(r)
    \/ AsyncFinish(r)

AsyncNext ==
    \/ \E n \in Routes : AsyncStart(n)
    \/ \E r \in LoopIds : AsyncLoopOf(r)
    \/ Pause
    \/ PauseTempo
    \/ Resume
    \/ ResumeTempo
    \/ StopSet
    \/ StopReturn

AsyncSpec == Init /\ [][AsyncNext]_vars

----------------------------------------------------------------------------
(* Evaluation Stage, as the Aggregator sees it *)

\* The contestant kinds in the order process() starts them (the order of the
\* "timed out" errors is that of a set in the code; only their number counts).
KindOrder == <<"video", "music", "history">>

\* JunctionProcessor.process, from the drained results on: one "timed out"
\* error per contestant kind that delivered nothing; with at least one result
\* the Judge's decision (its winner_type) and is_complete; with none the error
\* "No agent results to evaluate" and no decision.
TimedOut(received) ==
    LET Missing(k) == IF KindOrder[k] \in received THEN <<>>
                      ELSE <<KindOrder[k] \o " agent timed out">>
    IN Missing(1) \o Missing(2) \o Missing(3)

ProcessResult(r, index, received, winner) ==
    [junction    |-> <<r, index>>,
     decision    |-> IF received # {} THEN winner ELSE "none",
     is_complete |-> received # {},
     errors      |-> TimedOut(received) \o
                     (IF received # {} THEN <<>> ELSE <<"No agent results to evaluate">>)]

\* What the contestants of one junction may deliver before the drain: all
\* three, only music (the two others time out), or nothing.
ReceivedCases == {Kinds, {"music"}, {}}

\* The winners the Judge may name among the kinds received.
Winners(received) == IF received = Kinds THEN {"video"} ELSE received

\* The results process() may return for junction `index` of loop r's route.
ProcessResults(r, index) ==
    UNION {{ProcessResult(r, index, received, winner) :
               winner \in IF received = {} THEN {"none"} ELSE Winners(received)} :
           received \in ReceivedCases}

----------------------------------------------------------------------------
(* Aggregator *)

\* FinalReport(total_junctions = n) as start() creates it.
NewReport(n) ==
    [total_junctions |-> n, junction_results |-> <<>>,
     video_wins |-> 0, music_wins |-> 0, history_wins |-> 0,
     failed_junctions |-> 0, total_errors |-> 0, completed |-> FALSE]

\* FinalReport.add_junction_result, first statement: the append.
AppendResult(rep, result) ==
    [rep EXCEPT !.junction_results = Append(@, result)]

\* FinalReport.add_junction_result, the statistics: one win for the decision's
\* winner_type, the errors of the result, one failure if it is not complete.
CountResultOneError(rep, result) ==
    [rep EXCEPT
        !.video_wins       = @ + (IF result.decision = "video" THEN 1 ELSE 0),
        !.music_wins       = @ + (IF result.decision = "music" THEN 1 ELSE 0),
        !.history_wins     = @ + (IF result.decision = "history" THEN 1 ELSE 0),
        !.total_errors     = @ + (IF result.errors # <<>> THEN 1 ELSE 0),
        !.failed_junctions = @ + (IF result.is_complete THEN 0 ELSE 1)]

CountResult(rep, result) ==
    [rep EXCEPT
        !.video_wins       = @ + (IF result.decision = "video" THEN 1 ELSE 0),
        !.music_wins       = @ + (IF result.decision = "music" THEN 1 ELSE 0),
        !.history_wins     = @ + (IF result.decision = "history" THEN 1 ELSE 0),
        !.total_errors     = @ + Len(result.errors),
        !.failed_junctions = @ + (IF result.is_complete THEN 0 ELSE 1)]

\* threading.Lock: it can be taken when nobody holds it (0).
CanAcquire(lock) == lock = 0

\* Where a processing unit can stay for seconds: in the evaluation (up to the
\* agents' timeout), in a user callback and in the joins of _finalize_report.
UnitLingering(u) == units[u].pc \in {"process", "callback", "fin_join", "route_cb"}

\* The bounded joins over _active_threads (other than `self`) come to an end:
\* every unit joined has finished, or lingers past the join's timeout.
JoinsEnd(self) ==
    \A k \in 1..Len(active_threads) :
        LET u == active_threads[k]
        IN u = self \/ units[u].pc = "done" \/ UnitLingering(u)

\* Under the lock: completed_at is stamped on the current report, if any.
Stamped(reps, current) ==
    IF current = 0 THEN reps ELSE [reps EXCEPT ![current].completed = TRUE]

\* AgentOrchestrator.start(route, blocking): a new FinalReport replaces the
\* current one and _active_threads is emptied; then the Dispatcher's start(),
\* which raises when it is Running (the report stays replaced).
AggStart(n, blocking) ==
    /\ ctl = "idle"
    /\ Len(calls) < CallBudget
    /\ reports' = Append(reports, NewReport(n))
    /\ final_report' = Len(reports) + 1
    /\ active_threads' = <<>>
    /\ IF state = "running"
       THEN /\ calls' = Append(calls, Call("start", FALSE))
            /\ UNCHANGED <<state, stop_event, is_paused, current_route, current_index,
                           stats, thread, callbacks, loops, nstarts, ctl, obsLog,
                           stopped, starters>>
       ELSE /\ StartRun(n, blocking)
            /\ starters' = [starters EXCEPT ![nstarts + 1] =
                              IF blocking THEN "loop" ELSE "none"]
    /\ UNCHANGED <<units, results_lock, evalVars, timeVars, batch, joins>>

\* _process_junction_thread: process() has returned `result`; the lock is
\* taken and, if there is a current report, the result is appended to it.
UnitAppend(u, result) ==
    /\ units[u].pc = "process"
    /\ CanAcquire(results_lock)
    /\ results_lock' = u
    /\ reports' = IF final_report = 0 THEN reports
                  ELSE [reports EXCEPT ![final_report] = AppendResult(@, result)]
    /\ units' = [units EXCEPT ![u].pc = "counting", ![u].rep = final_report,
                              ![u].result = <<result>>]
    /\ UNCHANGED <<dispVars, evalVars, timeVars, batch, joins, final_report, active_threads, starters>>

\* The rest of add_junction_result on the same report; the lock is released.
\* Then the junction-complete callback (an exception of it is logged and
\* dropped); the unit of an event flagged is_last goes on to _finalize_report.
UnitCount(u) ==
    /\ units[u].pc = "counting"
    /\ reports' = IF units[u].rep = 0 THEN reports
                  ELSE [reports EXCEPT ![units[u].rep] = CountResult(@, units[u].result[1])]
    /\ results_lock' = 0
    /\ units' = [units EXCEPT ![u].pc = IF units[u].is_last THEN "fin_join" ELSE "done",
                              ![u].rep = 0, ![u].result = <<>>]
    /\ UNCHANGED <<dispVars, evalVars, timeVars, batch, joins, final_report, active_threads, starters>>

\* _finalize_report in the last event's unit: the joins are over, the lock is
\* taken, completed_at is stamped, the lock is released; then the
\* route-complete callback.
UnitFinalize(u) ==
    /\ units[u].pc = "fin_join"
    /\ JoinsEnd(u)
    /\ CanAcquire(results_lock)
    /\ reports' = Stamped(reports, final_report)
    /\ units' = [units EXCEPT ![u].pc = "done"]
    /\ UNCHANGED <<dispVars, evalVars, timeVars, batch, joins, final_report, active_threads, results_lock, starters>>

\* Blocking start() after the Dispatcher's loop has returned: the joins over
\* _active_threads (60 s each), then _finalize_report (joins, stamp,
\* route-complete callback), and the current report is returned.
StarterFinalize(r) ==
    /\ starters[r] = "loop"
    /\ loops[r].pc = "exited"
    /\ JoinsEnd(0)
    /\ CanAcquire(results_lock)
    /\ reports' = Stamped(reports, final_report)
    /\ starters' = [starters EXCEPT ![r] = "returned"]
    /\ UNCHANGED <<dispVars, evalVars, timeVars, batch, joins, final_report, active_threads, units, results_lock>>

UnitStep ==
    \/ \E u \in 1..Len(units) :
          \E result \in ProcessResults(units[u].run, units[u].index) : UnitAppend(u, result)
    \/ \E u \in 1..Len(units) : UnitCount(u)
    \/ \E u \in 1..Len(units) : UnitFinalize(u)

StarterStep == \E r \in LoopIds : StarterFinalize(r)

\* The calls made on the Aggregator: start() and stop() (the Dispatcher's
\* stop()).  Its pause() and resume() are the Dispatcher's too; they only
\* delay the events, which every interleaving of the loop already covers.
AggControl ==
    \/ \E n \in Routes, blocking \in BOOLEAN : AggStart(n, blocking)
    \/ StopSet
    \/ StopReturn

AggInit == InitWith(AggRegistered) /\ EvalIdle /\ TimeIdle

AggNext == LoopStep \/ AggControl \/ UnitStep \/ StarterStep

AggSpec == AggInit /\ [][AggNext]_vars

----------------------------------------------------------------------------
(* The processing units of one background run, statement by statement *)

\* Leaving `with self._results_lock`: the holder gives the lock back.
ReleasedLate(lock, u) == lock

Released(lock, u) == IF lock = u THEN 0 ELSE lock

\* A single start(route) of the Aggregator, non-blocking.
UnitStart(n) ==
    /\ nstarts = 0
    /\ reports = <<>>
    /\ AggStart(n, FALSE)

\* The rest of add_junction_result, then the end of the `with` block.
UnitAddDone(u) ==
    /\ units[u].pc = "counting"
    /\ reports' = IF units[u].rep = 0 THEN reports
                  ELSE [reports EXCEPT ![units[u].rep] = CountResult(@, units[u].result[1])]
    /\ results_lock' = Released(results_lock, u)
    /\ units' = [units EXCEPT ![u].pc = "callback", ![u].rep = 0, ![u].result = <<>>]
    /\ UNCHANGED <<dispVars, evalVars, timeVars, batch, joins, final_report, active_threads, starters>>

\* The junction-complete callback has returned (or raised: logged and
\* dropped); the unit of an event flagged is_last goes on to _finalize_report.
UnitCallbackDone(u) ==
    /\ units[u].pc = "callback"
    /\ units' = [units EXCEPT ![u].pc = IF units[u].is_last THEN "fin_join" ELSE "done"]
    /\ UNCHANGED <<dispVars, evalVars, timeVars, batch, joins, final_report, reports, active_threads, results_lock, starters>>

\* _finalize_report: the bounded joins over the other units are over.
UnitJoined(u) ==
    /\ units[u].pc = "fin_join"
    /\ JoinsEnd(u)
    /\ units' = [units EXCEPT ![u].pc = "stamp"]
    /\ UNCHANGED <<dispVars, evalVars, timeVars, batch, joins, final_report, reports, active_threads, results_lock, starters>>

\* _finalize_report: the lock is taken, completed_at stamped, the lock released.
UnitStamp(u) ==
    /\ units[u].pc = "stamp"
    /\ CanAcquire(results_lock)
    /\ reports' = Stamped(reports, final_report)
    /\ units' = [units EXCEPT ![u].pc = "route_cb"]
    /\ UNCHANGED <<dispVars, evalVars, timeVars, batch, joins, final_report, active_threads, results_lock, starters>>

\* _finalize_report: the route-complete callback has returned.
UnitRouteDone(u) ==
    /\ units[u].pc = "route_cb"
    /\ units' = [units EXCEPT ![u].pc = "done"]
    /\ UNCHANGED <<dispVars, evalVars, timeVars, batch, joins, final_report, reports, active_threads, results_lock, starters>>

UnitFineStep ==
    \/ \E u \in 1..Len(units) :
          \E result \in ProcessResults(units[u].run, units[u].index) : UnitAppend(u, result)
    \/ \E u \in 1..Len(units) : UnitAddDone(u)
    \/ \E u \in 1..Len(units) : UnitCallbackDone(u)
    \/ \E u \in 1..Len(units) : UnitJoined(u)
    \/ \E u \in 1..Len(units) : UnitStamp(u)
    \/ \E u \in 1..Len(units) : UnitRouteDone(u)

UnitNext == (\E n \in Routes : UnitStart(n)) \/ LoopStep \/ UnitFineStep

UnitSpec == AggInit /\ [][UnitNext]_vars

----------------------------------------------------------------------------
(* The Aggregator with its threads scheduled fairly *)

\* Background runs over a route of one junction, started and stopped at will;
\* every dispatch loop and every processing unit keeps running, and a stop()
\* that has begun returns.
AggLiveStart == AggStart(1, FALSE)

AggLiveNext == AggLiveStart \/ StopSet \/ StopReturn \/ LoopStep \/ UnitStep

AggLiveSpec ==
    /\ AggInit
    /\ [][AggLiveNext]_vars
    /\ \A r \in LoopIds : WF_vars(LoopOf(r))
    /\ WF_vars(UnitStep)
    /\ WF_vars(StopReturn)

----------------------------------------------------------------------------
(* Arbiter (JudgeAgent) *)

\* An AgentResult: error "none" stands for None; the scores are 0..100, the
\* time is in milliseconds.
AgentResult(agent_type, junction_id, title, error, profile) ==
    [agent_type |-> agent_type, junction_id |-> junction_id, title |-> title,
     error |-> error, relevance_score |-> profile[1], quality_score |-> profile[2],
     confidence |-> profile[3], processing_time_ms |-> profile[4]]

\* AgentResult.is_success
IsSuccess(c) == c.error = "none" /\ c.title # ""

\* judge_agent.FRESHNESS_MAX_TIME_MS
FRESHNESS_MAX_TIME_MS == 500

Max(a, b) == IF a >= b THEN a ELSE b

\* _calculate_scores, one contestant: relevance*0.45 + quality*0.30 +
\* confidence*0.15 + freshness_bonus*0.10 with freshness_bonus =
\* max(0, (500 - time)/500*10).  The value is kept exact by counting in units
\* of 1/500 point: every term is multiplied by FRESHNESS_MAX_TIME_MS.
CalculateScore(c) ==
    (45 * c.relevance_score + 30 * c.quality_score + 15 * c.confidence)
        * (FRESHNESS_MAX_TIME_MS \div 100)
    + Max(0, FRESHNESS_MAX_TIME_MS - c.processing_time_ms)

\* One point of score, in the same units.
Points(n) == n * FRESHNESS_MAX_TIME_MS

\* _calculate_scores: the dict judge_scores, keyed by agent_type.value; a later
\* contestant of the same type overwrites the score of an earlier one.
CalculateScores(cs) ==
    [ty \in {cs[i].agent_type : i \in DOMAIN cs} |->
        LET last == CHOOSE i \in DOMAIN cs :
                        /\ cs[i].agent_type = ty
                        /\ \A j \in DOMAIN cs : j > i => cs[j].agent_type # ty
        IN CalculateScore(cs[last])]

\* max(cs, key = lambda c: scores[c.agent_type.value]): the position of the
\* first element whose key is the greatest.
ArgMax(cs, scores) ==
    CHOOSE i \in DOMAIN cs :
        /\ \A j \in DOMAIN cs : scores[cs[j].agent_type] <= scores[cs[i].agent_type]
        /\ \A j \in DOMAIN cs : j < i => scores[cs[j].agent_type] < scores[cs[i].agent_type]

\* A JudgeDecision, or the exception evaluate() raised instead.
JudgeDecision(winner, winning_score, reasoning) ==
    [raised |-> "none", winner |-> winner, winner_type |-> winner.agent_type,
     winning_score |-> winning_score, reasoning |-> reasoning]

Raised(exception) ==
    [raised |-> exception, winner |-> <<>>, winner_type |-> "none",
     winning_score |-> 0, reasoning |-> ""]

\* _create_failed_decision
CreateFailedDecisionLast(cs) ==
    JudgeDecision(cs[Len(cs)], 0, "All agents failed to produce valid results.")

CreateFailedDecision(cs) ==
    JudgeDecision(cs[1], 0, "All agents failed to produce valid results.")

\* _generate_reasoning, by the kind of sentence it returns.
GenerateReasoning(winner, cs, scores) ==
    LET others == SelectSeq(cs, LAMBDA c : c # winner)
    IN IF others = <<>> THEN "wins by default"
       ELSE LET runner_up == others[ArgMax(others, scores)]
                margin == scores[winner.agent_type] - scores[runner_up.agent_type]
            IN IF margin > Points(10) THEN "wins decisively" ELSE "narrowly wins"

\* JudgeAgent.evaluate
Evaluate(cs) ==
    IF cs = <<>> THEN Raised("ValueError")
    ELSE LET valid == SelectSeq(cs, IsSuccess)
         IN IF valid = <<>> THEN CreateFailedDecision(cs)
            ELSE LET judge_scores == CalculateScores(valid)
                     winner == valid[ArgMax(valid, judge_scores)]
                 IN JudgeDecision(winner, judge_scores[winner.agent_type],
                                  GenerateReasoning(winner, valid, judge_scores))

\* Longest list handed to the Judge.
MaxCandidates == 3

\* Score profiles <<relevance, quality, confidence, time in ms>>: the first two
\* score the same, the third lost its freshness bonus, the fourth is poor.
Profiles == {<<80, 70, 60, 100>>, <<78, 73, 60, 100>>, <<80, 70, 60, 600>>, <<20, 10, 0, 2000>>}

\* The results a contestant may hand in: valid ones, and failures (an error, or
\* no error but an empty title) with the default scores.
Candidates ==
    {AgentResult(ty, 1, "T", "none", p) : ty \in Kinds, p \in Profiles} \cup
    {AgentResult(ty, 1, "", e, <<0, 0, 0, 0>>) : ty \in Kinds, e \in {"none", "boom"}}

CandidateLists == UNION {[1..n -> Candidates] : n \in 0..MaxCandidates}

\* One call of evaluate() on a list of candidates.
JudgeInit ==
    /\ InitWith(<<>>)
    /\ results_queue = 0
    /\ queues = [q \in 0..MaxInvocations |-> <<>>]
    /\ invs = [j \in Invocations |-> [pc |-> "idle", pushed |-> {}, result |-> NewJunctionResults]]
    /\ workers = [j \in Invocations |->
                    [k \in Kinds |-> [pc |-> "none", q |-> 0, outcome |-> "none"]]]
    /\ contestants \in CandidateLists
    /\ decision = <<>>
    /\ TimeIdle

JudgeEvaluate ==
    /\ decision = <<>>
    /\ decision' = <<Evaluate(contestants)>>
    /\ UNCHANGED <<dispVars, aggVars, timeVars, batch, joins, results_queue, queues, invs, workers, contestants>>

JudgeNext == JudgeEvaluate

JudgeSpec == JudgeInit /\ [][JudgeNext]_vars

----------------------------------------------------------------------------
(* Evaluation Stage (JunctionProcessor.process) *)

\* What the three contestants score when they succeed on invocation j's
\* junction: the video found for the first junction is good, for the others poor.
KindProfile(kind, j) ==
    IF kind = "video" THEN (IF j = 1 THEN <<80, 70, 60, 100>> ELSE <<20, 10, 0, 2000>>)
    ELSE IF kind = "music" THEN <<78, 73, 60, 100>>
    ELSE <<80, 70, 60, 600>>

\* BaseAgent.process_with_timing for invocation j's junction: the agent's
\* result, or, when process() raises, a failure result of the agent's type
\* carrying the error text.
ProcessWithTiming(kind, j, outcome) ==
    IF outcome = "raises" THEN AgentResult(kind, j, "", "boom", <<0, 0, 0, 0>>)
    ELSE AgentResult(kind, j, "T", "none", KindProfile(kind, j))

\* The drain loop: each result collected is assigned to the slot of its
\* agent_type, a later one replacing an earlier one.
Slots(collected) ==
    [k \in Kinds |->
        LET at == {i \in DOMAIN collected : collected[i].agent_type = k}
        IN IF at = {} THEN <<>>
           ELSE <<collected[CHOOSE i \in at : \A i2 \in at : i2 <= i]>>]

\* process() from the drain on: the slots, one "timed out" error per kind
\* that is missing, then the Judge if anything was collected.
JunctionResultsAlways(collected) ==
    LET d == Evaluate(collected)
    IN [slots |-> Slots(collected),
        errors |-> TimedOut({collected[i].agent_type : i \in DOMAIN collected}),
        decision |-> <<d>>, is_complete |-> TRUE, collected |-> collected]

JunctionResultsOf(collected) ==
    LET missing == TimedOut({collected[i].agent_type : i \in DOMAIN collected})
        d == Evaluate(collected)
    IN IF collected # <<>>
       THEN IF d.raised = "none"
            THEN [slots |-> Slots(collected), errors |-> missing,
                  decision |-> <<d>>, is_complete |-> TRUE, collected |-> collected]
            ELSE [slots |-> Slots(collected), errors |-> Append(missing, "Judge error"),
                  decision |-> <<>>, is_complete |-> FALSE, collected |-> collected]
       ELSE [slots |-> Slots(collected),
             errors |-> Append(missing, "No agent results to evaluate"),
             decision |-> <<>>, is_complete |-> FALSE, collected |-> collected]

\* FinalReport.add_junction_result on a JunctionResults returned by process():
\* the append, one win for the decision's winner_type if there is a decision,
\* the errors, one failure if it is not complete.
AddJunctionResult(rep, jr) ==
    LET result == [decision |-> IF jr.decision = <<>> THEN "none"
                                ELSE jr.decision[1].winner_type,
                   is_complete |-> jr.is_complete, errors |-> jr.errors]
    IN CountResult(AppendResult(rep, result), result)

\* process(), line 134: a fresh queue is stored in self._results_queue.
ProcBegin(j) ==
    /\ invs[j].pc = "idle"
    /\ results_queue' = j
    /\ queues' = [queues EXCEPT ![j] = <<>>]
    /\ invs' = [invs EXCEPT ![j].pc = "spawn"]
    /\ UNCHANGED <<dispVars, aggVars, timeVars, batch, joins, workers, contestants, decision>>

\* process(): the three contestant threads are created and started; each is
\* handed the queue self._results_queue names at that moment.
ProcSpawn(j) ==
    /\ invs[j].pc = "spawn"
    /\ workers' = [workers EXCEPT ![j] =
                      [k \in Kinds |-> [pc |-> "running", q |-> results_queue,
                                        outcome |-> "none"]]]
    /\ invs' = [invs EXCEPT ![j].pc = "join"]
    /\ UNCHANGED <<dispVars, aggVars, timeVars, batch, joins, results_queue, queues, contestants, decision>>

\* _agent_worker: process_with_timing returns (the agent succeeded, or raised
\* and was turned into a failure result) and results_queue.put(result) puts
\* it in the queue the worker was handed; put blocks while that queue is full.
WorkerPut(j, kind, outcome) ==
    /\ workers[j][kind].pc = "running"
    /\ Len(queues[workers[j][kind].q]) < QUEUE_SIZE
    /\ queues' = [queues EXCEPT ![workers[j][kind].q] =
                     Append(@, ProcessWithTiming(kind, j, outcome))]
    /\ workers' = [workers EXCEPT ![j][kind].pc = "done", ![j][kind].outcome = outcome]
    /\ UNCHANGED <<dispVars, aggVars, timeVars, batch, joins, results_queue, invs, contestants, decision>>

\* process(): the joins are over: every contestant thread has ended, or the
\* timeout has run out while some are still at work or blocked in put.
ProcJoined(j) ==
    /\ invs[j].pc = "join"
    /\ invs' = [invs EXCEPT ![j].pc = "drain"]
    /\ UNCHANGED <<dispVars, aggVars, timeVars, batch, joins, results_queue, queues, workers, contestants, decision>>

\* process(): the queue self._results_queue names now is drained, the slots
\* and errors are filled, the Judge decides, the JunctionResults is returned.
\* pushed keeps which of the invocation's own contestants had put their
\* result by then.
ProcDrain(j) ==
    /\ invs[j].pc = "drain"
    /\ queues' = [queues EXCEPT ![results_queue] = <<>>]
    /\ invs' = [invs EXCEPT ![j].pc = "returned",
                            ![j].pushed = {k \in Kinds : workers[j][k].pc = "done"},
                            ![j].result = JunctionResultsOf(queues[results_queue])]
    /\ UNCHANGED <<dispVars, aggVars, timeVars, batch, joins, results_queue, workers, contestants, decision>>

ProcStep ==
    \E j \in Invocations : ProcBegin(j) \/ ProcSpawn(j) \/ ProcJoined(j) \/ ProcDrain(j)

\* What a contestant's process() may do: the history agent is kept to success.
Outcomes(kind) == IF kind = "history" THEN {"ok"} ELSE {"ok", "raises"}

WorkerStep ==
    \E j \in Invocations, kind \in Kinds :
        \E outcome \in Outcomes(kind) : WorkerPut(j, kind, outcome)

ProcInit == InitWith(<<>>) /\ EvalIdle /\ TimeIdle

ProcNext == ProcStep \/ WorkerStep

ProcSpec == ProcInit /\ [][ProcNext]_vars

----------------------------------------------------------------------------
(* Evaluation Stage: process_batch *)

\* Longest list of junctions handed to process_batch.
MaxBatch == 3

\* Greatest max_concurrent_junctions of the pool.
MaxConcurrent == 2

\* A batch of n junctions just submitted to the pool: job i is
\* process_one(i - 1, junctions[i]), results = [None] * n.
NewBatch(n, max_concurrent, on_complete) ==
    [pc |-> "collect", max_concurrent |-> max_concurrent, on_complete |-> on_complete,
     jobs |-> [i \in 1..n |-> [pc |-> "queued", ret |-> <<>>, calls |-> 0]],
     results |-> [i \in 1..n |-> <<>>], order |-> <<>>]

Busy == {i \in DOMAIN batch.jobs : batch.jobs[i].pc \in {"running", "processed"}}

Finished == {i \in DOMAIN batch.jobs : batch.jobs[i].pc \in {"done", "failed"}}

\* Jobs whose future the caller has taken from as_completed.
Taken == {batch.order[k] : k \in DOMAIN batch.order}

\* A pool worker is free and takes the next work item, in submission order.
BatchTake(i) ==
    /\ i \in DOMAIN batch.jobs
    /\ batch.jobs[i].pc = "queued"
    /\ \A i2 \in 1..(i - 1) : batch.jobs[i2].pc # "queued"
    /\ Cardinality(Busy) < batch.max_concurrent
    /\ batch' = [batch EXCEPT !.jobs[i].pc = "running"]
    /\ UNCHANGED <<dispVars, aggVars, evalVars, timeVars, joins>>

\* process_one: result = self.process(junction, index), a JunctionResults
\* built for that junction and index.
BatchProcess(i) ==
    /\ i \in DOMAIN batch.jobs
    /\ batch.jobs[i].pc = "running"
    /\ batch' = [batch EXCEPT
                   !.jobs[i].pc = "processed",
                   !.jobs[i].ret = <<i - 1, [junction |-> i, junction_index |-> i - 1]>>]
    /\ UNCHANGED <<dispVars, aggVars, evalVars, timeVars, joins>>

\* process_one: on_complete(result) if a callback was given, then the return
\* of (index, result); a callback that raises fails the future.
BatchComplete(i) ==
    /\ i \in DOMAIN batch.jobs
    /\ batch.jobs[i].pc = "processed"
    /\ batch' = [batch EXCEPT
                   !.jobs[i].pc = IF batch.on_complete = "raises" THEN "failed" ELSE "done",
                   !.jobs[i].calls = @ + (IF batch.on_complete = "none" THEN 0 ELSE 1)]
    /\ UNCHANGED <<dispVars, aggVars, evalVars, timeVars, joins>>

\* results[index] = result
StoredInCompletionOrder(results, order, ret) ==
    [results EXCEPT ![Len(order) + 1] = <<ret[2]>>]

Stored(results, order, ret) == [results EXCEPT ![ret[1] + 1] = <<ret[2]>>]

\* The caller's loop over as_completed: any finished future not yet taken;
\* future.result() gives (index, result), or re-raises what the job raised.
BatchCollect(i) ==
    /\ i \in DOMAIN batch.jobs
    /\ batch.pc = "collect"
    /\ i \in Finished \ Taken
    /\ batch' = [batch EXCEPT
                   !.order = Append(@, i),
                   !.results = IF batch.jobs[i].pc = "done"
                               THEN Stored(@, batch.order, batch.jobs[i].ret) ELSE @,
                   !.pc = IF batch.jobs[i].pc = "done" THEN "collect" ELSE "raising"]
    /\ UNCHANGED <<dispVars, aggVars, evalVars, timeVars, joins>>

\* End of the with block: the pool is shut down waiting for every job, then
\* the list is returned, or the exception goes on to the caller.
BatchEnd ==
    /\ \/ batch.pc = "collect" /\ Taken = DOMAIN batch.jobs
       \/ batch.pc = "raising"
    /\ Finished = DOMAIN batch.jobs
    /\ batch' = [batch EXCEPT !.pc = IF batch.pc = "collect" THEN "returned" ELSE "raised"]
    /\ UNCHANGED <<dispVars, aggVars, evalVars, timeVars, joins>>

BatchInit ==
    /\ InitWith(<<>>)
    /\ EvalIdle
    /\ clock = [now |-> 0, paused |-> 0]
    /\ config = DefaultConfig
    /\ tempo = NewTempo
    /\ run = NoRun
    /\ joins = NoJoins
    /\ batch \in {NewBatch(n, max_concurrent, on_complete) :
                     n \in 0..MaxBatch, max_concurrent \in 1..MaxConcurrent,
                     on_complete \in {"none", "ok", "raises"}}

BatchNext ==
    \/ \E i \in 1..MaxBatch : BatchTake(i)
    \/ \E i \in 1..MaxBatch : BatchProcess(i)
    \/ \E i \in 1..MaxBatch : BatchComplete(i)
    \/ \E i \in 1..MaxBatch : BatchCollect(i)
    \/ BatchEnd

BatchSpec == BatchInit /\ [][BatchNext]_vars

----------------------------------------------------------------------------
(* Evaluation Stage: the joins of process() on the clock *)

\* Time here is counted in tenths of a second.
MaxTimeout == 3

\* The least timeout a join is given: max(0.1, ...), one tenth.
MIN_JOIN == 1

\* remaining_timeout = max(0.1, self.timeout - (time.time() - start_timer))
RemainingTimeout(timeout, start_timer, now) ==
    Max(MIN_JOIN, timeout - (now - start_timer))

\* process(): start_timer is taken and the three contestant threads started.
JoinBegin ==
    /\ joins.pc = "new"
    /\ joins' = [joins EXCEPT !.pc = "between", !.start_timer = clock.now,
                               !.alive = DOMAIN KindOrder, !.k = 1]
    /\ UNCHANGED <<dispVars, aggVars, evalVars, timeVars, batch>>

\* A contestant thread ends (its result is in the queue).
JoinWorkerEnd(w) ==
    /\ joins.pc \in {"between", "joining", "collected"}
    /\ w \in joins.alive
    /\ joins' = [joins EXCEPT !.alive = @ \ {w}]
    /\ UNCHANGED <<dispVars, aggVars, evalVars, timeVars, batch>>

\* thread.join(timeout=remaining_timeout) is called for thread k.
JoinCall ==
    /\ joins.pc = "between"
    /\ LET remaining == RemainingTimeout(joins.timeout, joins.start_timer, clock.now)
       IN joins' = [joins EXCEPT !.pc = "joining",
                                 !.deadline = clock.now + remaining,
                                 !.granted = Append(@, remaining)]
    /\ UNCHANGED <<dispVars, aggVars, evalVars, timeVars, batch>>

\* The join returns: the thread has ended, or the timeout has passed.
JoinReturn ==
    /\ joins.pc = "joining"
    /\ joins.k \notin joins.alive \/ clock.now >= joins.deadline
    /\ joins' = [joins EXCEPT !.pc = IF joins.k = Len(KindOrder) THEN "collected"
                                                                ELSE "between",
                               !.k = IF joins.k = Len(KindOrder) THEN @ ELSE @ + 1]
    /\ UNCHANGED <<dispVars, aggVars, evalVars, timeVars, batch>>

\* A tenth of a second passes. A join returns as soon as it can, and the
\* statements between two joins take no time.
JoinTick ==
    /\ joins.pc \in {"new", "joining", "collected"}
    /\ joins.pc = "joining" => (joins.k \in joins.alive /\ clock.now < joins.deadline)
    /\ clock.now < MaxClock
    /\ clock' = [clock EXCEPT !.now = @ + 1]
    /\ UNCHANGED <<dispVars, aggVars, evalVars, batch, config, tempo, run, joins>>

JoinInit ==
    /\ InitWith(<<>>)
    /\ EvalIdle
    /\ clock = [now |-> 0, paused |-> 0]
    /\ config = DefaultConfig
    /\ tempo = NewTempo
    /\ run = NoRun
    /\ batch = NoBatch
    /\ joins \in {[NoJoins EXCEPT !.pc = "new", !.timeout = t] : t \in 1..MaxTimeout}

JoinNext ==
    \/ JoinBegin
    \/ \E w \in DOMAIN KindOrder : JoinWorkerEnd(w)
    \/ JoinCall
    \/ JoinReturn
    \/ JoinTick

JoinSpec == JoinInit /\ [][JoinNext]_vars

----------------------------------------------------------------------------
(* Scheduler: the schedule in every dispatch mode *)

\* DispatchMode
Modes == {"fixed_interval", "real_time", "distance_based", "manual"}

\* Greatest cumulative driving duration of a junction, in seconds.
MaxDuration == 4

\* Cumulative durations are even, so that dividing by a time_scale of 1 or
\* 2 is exact, as the float division of the code is.
Durations == {2 * k : k \in 0..(MaxDuration \div 2)}

\* The routes scheduled: the cumulative duration of each junction.
DurationLists ==
    UNION {[1..n -> Durations] : n \in 0..MaxJunctions}

\* Configurations with a dispatch mode and the real-time settings.
SchedConfigs ==
    [junction_interval_seconds : 1..MaxInterval, time_scale : 1..2,
     lookahead_count : {1}, mode : Modes, pre_dispatch_seconds : {0, 1, 3}]

\* TempoController.get_dispatch_time: fixed interval, and the same again for
\* the other modes.
GetDispatchTimeOf(t, cfg, junction_index) ==
    IF cfg.mode = "fixed_interval"
    THEN t.start_time + junction_index * cfg.junction_interval_seconds
    ELSE t.start_time + junction_index * cfg.junction_interval_seconds

\* TempoController.get_dispatch_time_realtime
GetDispatchTimeRealtime(t, cfg, cumulative_duration_seconds) ==
    LET scaled_duration == cumulative_duration_seconds \div cfg.time_scale
        adjusted_duration == Max(0, scaled_duration - cfg.pre_dispatch_seconds)
    IN t.start_time + adjusted_duration

\* TempoController.generate_schedule after its self.start(): the dispatch
\* time of each junction; `route` is whether a route was handed over.
GenerateScheduleTimes(t, cfg, durs, route) ==
    [k \in DOMAIN durs |->
        IF cfg.mode = "real_time" /\ route
        THEN GetDispatchTimeRealtime(t, cfg, durs[k])
        ELSE GetDispatchTimeOf(t, cfg, k - 1)]

\* _run_sync up to its loop: schedule = list(self.tempo.generate_schedule(
\* junctions, self._current_route)); the route and the configuration in
\* force are kept with the schedule.
SchedStart(durs) ==
    /\ run.pc = "idle"
    /\ tempo' = TempoStarted(tempo, clock.now)
    /\ is_paused' = FALSE
    /\ run' = [pc |-> "scheduled",
               sched |-> GenerateScheduleTimes(tempo', config, durs, TRUE),
               pos |-> 1, events |-> <<>>, durs |-> durs, cfg |-> config]
    /\ UNCHANGED <<state, stop_event, current_route, current_index, stats, thread,
                   callbacks, loops, nstarts, calls, ctl, obsLog, stopped>>
    /\ UNCHANGED <<aggVars, evalVars, batch, joins, clock, config>>

SchedInit ==
    /\ InitWith(<<>>)
    /\ EvalIdle
    /\ clock \in {[now |-> n, paused |-> 0] : n \in 0..1}
    /\ config \in SchedConfigs
    /\ tempo = NewTempo
    /\ run = [NoRun EXCEPT !.pc = "new"]
    /\ batch = NoBatch
    /\ joins = NoJoins

SchedNext ==
    \/ Construct
    \/ \E seconds \in -1..MaxInterval : SetInterval(seconds)
    \/ \E durs \in DurationLists : SchedStart(durs)

SchedSpec == SchedInit /\ [][SchedNext]_vars

----------------------------------------------------------------------------
(* Dispatcher properties *)

Observers == DOMAIN callbacks

\* The junction indices of the events observer o received from loop r, in order.
Indices(o, r) == [k \in 1..Len(obsLog[o][r]) |-> obsLog[o][r][k].junction_index]

\* Length of the route loop r dispatches (0 before it has built its schedule).
RouteLen(r) == Len(loops[r].sched)

\* Effective calls of `op` in the call history.
Effective(op) == {k \in 1..Len(calls) : calls[k].op = op /\ calls[k].effect}

\* C1: within one run every observer receives the junction indices 0, 1, 2, ... in
\* this order, none skipped or repeated, and a run that ends without any stop()
\* during it has handed all N events to every observer, whatever pause() and
\* resume() calls were made.
C1_InOrderAndComplete ==
    \A r \in LoopIds : \A o \in Observers :
        /\ Len(obsLog[o][r]) <= RouteLen(r)
        /\ Indices(o, r) = [k \in 1..Len(obsLog[o][r]) |-> k - 1]
        /\ (loops[r].pc = "exited" /\ stopped[r] = "no")
              => Len(obsLog[o][r]) = RouteLen(r)

\* C1 witness: a run of two junctions that was paused and resumed while it ran,
\* was never stopped, and has ended.
C1_Witness ==
    \E r \in LoopIds :
        /\ loops[r].pc = "exited"
        /\ stopped[r] = "no"
        /\ RouteLen(r) = 2
        /\ Len(obsLog[1][r]) = 2
        /\ calls = <<Call("start", TRUE), Call("pause", TRUE), Call("resume", TRUE)>>

\* C2: every event a run over N junctions emits for index i carries
\* total_junctions = N, is_first = (i = 0), is_last = (i = N-1),
\* progress_percent = i/N*100 and remaining_junctions = N-i-1.
C2_EventFields ==
    \A r \in LoopIds : \A o \in Observers : \A k \in 1..Len(obsLog[o][r]) :
        LET e == obsLog[o][r][k]
            i == e.junction_index
            N == RouteLen(r)
        IN /\ e.total_junctions = N
           /\ e.is_first = (i = 0)
           /\ e.is_last = (i = N - 1)
           /\ e.progress_percent.num * N = i * 100 * e.progress_percent.den
           /\ e.remaining_junctions = N - i - 1

\* The event of loop r's last junction has been handed to the observers.
EmittedLast(r) ==
    \A o \in Observers :
        \E k \in 1..Len(obsLog[o][r]) : obsLog[o][r][k].junction_index = RouteLen(r) - 1

\* C3: a dispatch loop sets the state to Completed only after the event of its
\* last junction was emitted; a run cut short by stop() does not end in Completed.
C3_CompletedOnlyAfterLast ==
    \A r \in LoopIds : loops[r].pc = "exited" => EmittedLast(r)

\* A stop() has returned and no start() was called since.
StopReturnedLast ==
    /\ ctl = "idle"
    /\ Effective("stop") # {}
    /\ \A k \in Effective("start") : \E j \in Effective("stop") : j > k

\* C4: once stop() has returned, the state is Idle and stays Idle until the
\* next start().
C4_IdleAfterStop == StopReturnedLast => state = "idle"

\* C5: after stop() has returned, no further event of a run that was live when
\* stop() was called is delivered to any observer.
C5_NoEventAfterStop ==
    [][\A r \in LoopIds : stopped[r] = "returned" =>
            \A o \in Observers : obsLog'[o][r] = obsLog[o][r]]_vars

\* A resume() or start() was called after the last stop().
RescuedAfterStop ==
    \E k \in 1..Len(calls) :
        /\ calls[k].op \in {"resume", "start"}
        /\ \A j \in Effective("stop") : j < k

\* C6: after stop() is called the dispatch loop of the run eventually exits,
\* unless resume() or start() is called later.
C6_StopEndsLoop ==
    \A r \in LoopIds :
        [](stopped[r] # "no" => <>(loops[r].pc = "exited" \/ RescuedAfterStop))

\* C7: while the Dispatcher is Paused, from the return of pause() until
\* resume() or stop() is called, no event is emitted.
C7_NoEventWhilePaused ==
    [][(state = "paused" /\ ctl = "idle") => obsLog' = obsLog]_vars

----------------------------------------------------------------------------
(* Aggregator properties *)

Reports == 1..Len(reports)

\* The junction indices of the results a report holds.
ResultIndices(p) ==
    {reports[p].junction_results[k].junction[2] :
        k \in 1..Len(reports[p].junction_results)}

RECURSIVE SumErrors(_)
SumErrors(results) ==
    IF results = <<>> THEN 0 ELSE Len(Head(results).errors) + SumErrors(Tail(results))

Wins(p, kind) ==
    Cardinality({k \in 1..Len(reports[p].junction_results) :
                    reports[p].junction_results[k].decision = kind})

Failed(p) ==
    Cardinality({k \in 1..Len(reports[p].junction_results) :
                    ~reports[p].junction_results[k].is_complete})

\* C8: a completed FinalReport holds exactly N JunctionResults, one per
\* junction index.  Stated for a run that was started once and never stopped.
C8_CompletedReportHasAll ==
    Len(calls) = 1 =>
        \A p \in Reports :
            reports[p].completed =>
                /\ Len(reports[p].junction_results) = reports[p].total_junctions
                /\ ResultIndices(p) = 0..(reports[p].total_junctions - 1)

\* C9: a report never holds more results than its total_junctions.
C9_ResultsWithinTotal ==
    \A p \in Reports :
        Len(reports[p].junction_results) <= reports[p].total_junctions

----------------------------------------------------------------------------
(* Properties of the processing units *)

\* C11: the report lock is held only inside add_junction_result (and for the
\* stamp, which takes and releases it in one step): a unit that is in the
\* evaluation, in the junction-complete or route-complete callback or in the
\* joins does not hold it, so a unit whose evaluation has ended can append
\* whenever no other unit is inside add_junction_result.
C11_LockOnlyForUpdate ==
    /\ results_lock # 0 => units[results_lock].pc = "counting"
    /\ \A u \in 1..Len(units) :
          (/\ units[u].pc = "process"
           /\ \A v \in 1..Len(units) : units[v].pc # "counting")
          => ENABLED (\E result \in ProcessResults(units[u].run, units[u].index) :
                         UnitAppend(u, result))

\* C11 witness: the first junction's unit is still in its junction-complete
\* callback while the last junction's unit has appended, stamped and is in the
\* route-complete callback.
C11_Witness ==
    \E u, v \in 1..Len(units) :
        /\ units[u].pc = "callback"
        /\ units[v].pc = "route_cb"
        /\ final_report # 0
        /\ Len(reports[final_report].junction_results) = 2

\* The junction indices of the units launched for loop r, in launch order.
UnitsOf(r) ==
    LET ofRun == SelectSeq(units, LAMBDA un : un.run = r)
    IN [k \in 1..Len(ofRun) |-> ofRun[k].index]

\* C12: handling a dispatch event launches exactly one processing unit and
\* returns: the units of a loop are those of the events it has handed out, and
\* a live dispatch loop can always take its next step, wherever the units of
\* the junctions already released are.
C12_DispatchNeverWaits ==
    \A r \in LoopIds :
        /\ UnitsOf(r) = Indices(1, r)
        /\ Alive(r) => ENABLED LoopOf(r)

\* C12 witness: the second junction has been released and its unit launched
\* while the evaluation of the first has not finished.
C12_Witness ==
    /\ Len(units) = 2
    /\ units[1].index = 0
    /\ units[1].pc = "process"
    /\ units[2].index = 1
    /\ Len(obsLog[1][1]) = 2

\* The start() calls made on the Aggregator so far; the p-th one created
\* report p, and the r-th one that took effect started loop r.
StartCalls == SelectSeq(calls, LAMBDA c : c.op = "start")

\* The FinalReport created by the start() that started loop r.
ReportOf(r) ==
    CHOOSE p \in 1..Len(StartCalls) :
        /\ StartCalls[p].effect
        /\ Cardinality({q \in 1..p : StartCalls[q].effect}) = r

\* The event of junction i of loop r has been handed to the Aggregator.
Emitted(r, i) == \E k \in 1..Len(obsLog[1][r]) : obsLog[1][r][k].junction_index = i

\* The report of loop r holds exactly one result for its junction i.
RecordedOnce(r, i) ==
    /\ r <= nstarts
    /\ LET results == reports[ReportOf(r)].junction_results
       IN Cardinality({k \in 1..Len(results) : results[k].junction = <<r, i>>}) = 1

\* C13: every junction whose dispatch event was emitted eventually has exactly
\* one JunctionResults in the FinalReport of the run that dispatched it,
\* whatever stop() calls are made while its evaluation is in flight.
C13_EveryDispatchedJunctionRecorded ==
    \A r \in LoopIds : \A i \in 0..(MaxJunctions - 1) :
        [](Emitted(r, i) => <>RecordedOnce(r, i))

----------------------------------------------------------------------------
(* Observer failures *)

\* The observer calls that fail in a step of loop r: the callbacks that raise,
\* and a callback whose stop() raised because it joined its own thread.
FailedCalls(r) ==
    Cardinality(Raisers(callbacks)) + (IF calls' # calls /\ thread = r THEN 1 ELSE 0)

\* C14: an exception of an observer stays inside _dispatch_event.  Every
\* observer is invoked for every event, in registration order, also those
\* registered after a failing one; the junctions after it are dispatched (an
\* unstopped run hands out all its events); a loop that ends leaves the state
\* Completed; and error_count grows by one per failing observer call.
C14_ObserverExceptionsTrapped ==
    /\ [](/\ Invoked(callbacks) = [k \in DOMAIN callbacks |-> k]
          /\ \A r \in LoopIds : \A o \in Observers :
                /\ obsLog[o][r] = obsLog[1][r]
                /\ (loops[r].pc = "exited" /\ stopped[r] = "no")
                      => Len(obsLog[o][r]) = RouteLen(r))
    /\ [][\A r \in LoopIds :
            /\ obsLog'[1][r] # obsLog[1][r]
                  => /\ stats'.error_count = stats.error_count + FailedCalls(r)
                     /\ Alive(r)'
            /\ (loops[r].pc # "exited" /\ loops'[r].pc = "exited")
                  => state' = "completed"]_vars

\* C14 witness: an unstopped run of two junctions has ended; the observer
\* registered after the failing one got both events, and two failures were
\* counted.
C14_Witness ==
    /\ nstarts = 1
    /\ loops[1].pc = "exited"
    /\ stopped[1] = "no"
    /\ callbacks[2] = "faulty"
    /\ Len(obsLog[3][1]) = 2
    /\ stats.error_count = 2
    /\ state = "completed"

----------------------------------------------------------------------------
(* Evaluation Stage properties *)

Returned == {j \in Invocations : invs[j].pc = "returned"}

\* How many times the returned JunctionResults reports kind k as timed out.
TimedOutCount(j, k) ==
    Cardinality({i \in DOMAIN invs[j].result.errors :
                    invs[j].result.errors[i] = k \o " agent timed out"})

\* The result contestant k of invocation j put in its queue.
OwnResult(j, k) == ProcessWithTiming(k, j, workers[j][k].outcome)

\* C15: a contestant whose evaluation raised, and that put its failure result
\* before its invocation drained, has that failure result in its slot of the
\* returned JunctionResults, and is not reported as timed out.
C15_RaisingContestantFillsSlot ==
    \A j \in Returned : \A k \in invs[j].pushed :
        workers[j][k].outcome = "raises" =>
            /\ invs[j].result.slots[k] = <<ProcessWithTiming(k, j, "raises")>>
            /\ TimedOutCount(j, k) = 0

\* C16: in every returned JunctionResults, for each kind exactly one holds:
\* the slot carries the result the invocation's own contestant of that kind
\* put before the drain, or errors has exactly one "<kind> agent timed out".
C16_SlotOrTimedOut ==
    \A j \in Returned : \A k \in Kinds :
        (k \in invs[j].pushed /\ invs[j].result.slots[k] = <<OwnResult(j, k)>>)
            # (TimedOutCount(j, k) = 1)

\* C17: is_complete holds exactly when there is a decision; there is a
\* decision whenever at least one result was collected; with none collected
\* there is no decision, is_complete is false and errors contains
\* "No agent results to evaluate".
C17_CompleteIffDecided ==
    \A j \in Returned :
        LET r == invs[j].result
        IN /\ r.is_complete <=> r.decision # <<>>
           /\ r.collected # <<>> => r.decision # <<>>
           /\ r.collected = <<>> =>
                 /\ r.decision = <<>>
                 /\ ~r.is_complete
                 /\ \E i \in DOMAIN r.errors : r.errors[i] = "No agent results to evaluate"

C17_Witness ==
    /\ \E j \in Returned : invs[j].result.collected = <<>>
    /\ \E j \in Returned : invs[j].result.collected # <<>> /\ invs[j].result.is_complete

----------------------------------------------------------------------------
(* Arbiter properties *)

Valid(cs) == SelectSeq(cs, IsSuccess)

\* The greatest score the formula gives to a valid candidate of cs.
MaxScore(cs) ==
    LET all == {CalculateScore(Valid(cs)[i]) : i \in DOMAIN Valid(cs)}
    IN CHOOSE m \in all : \A n \in all : n <= m

\* The positions in Valid(cs) of the candidates that achieve MaxScore(cs).
Best(cs) == {i \in DOMAIN Valid(cs) : CalculateScore(Valid(cs)[i]) = MaxScore(cs)}

\* C18: for a candidate list with at least one valid candidate the decision's
\* winner is a valid candidate of the list and winning_score is the greatest
\* score the formula gives to a valid candidate.
C18_WinningScoreIsMax ==
    (decision # <<>> /\ Valid(contestants) # <<>>) =>
        /\ decision[1].raised = "none"
        /\ \E i \in DOMAIN Valid(contestants) : decision[1].winner = Valid(contestants)[i]
        /\ decision[1].winning_score = MaxScore(contestants)

AllFailed(cs) == cs # <<>> /\ Valid(cs) = <<>>

\* C19: evaluate() of the empty list raises ValueError; of a non-empty list
\* of failures it raises nothing and returns winner = candidates[0],
\* winning_score 0 and the reasoning "All agents failed to produce valid results.".
C19_EmptyRaisesAllFailedDecides ==
    decision # <<>> =>
        /\ contestants = <<>> => decision[1].raised = "ValueError"
        /\ contestants # <<>> => decision[1].raised = "none"
        /\ AllFailed(contestants) =>
              /\ decision[1].winner = contestants[1]
              /\ decision[1].winner_type = contestants[1].agent_type
              /\ decision[1].winning_score = 0
              /\ decision[1].reasoning = "All agents failed to produce valid results."

C19_Witness ==
    /\ decision # <<>>
    /\ AllFailed(contestants)
    /\ Len(contestants) = MaxCandidates
    /\ contestants[1] # contestants[Len(contestants)]
    /\ decision[1].winner = contestants[1]

\* C20: when several valid candidates achieve the maximum score, the winner
\* is the one of them that comes first in the input list.
C20_FirstOfTiedWins ==
    (decision # <<>> /\ Valid(contestants) # <<>> /\ Cardinality(Best(contestants)) >= 2) =>
        decision[1].winner =
            Valid(contestants)[CHOOSE i \in Best(contestants) :
                                  \A i2 \in Best(contestants) : i <= i2]

----------------------------------------------------------------------------
(* Dispatcher properties: refused and idle calls *)

\* This step is a call of `op` (it adds the call to the history).
Calling(op) == Len(calls') = Len(calls) + 1 /\ calls'[Len(calls')].op = op

\* C21: start() called while the state is Running is refused and changes
\* nothing: state, current route, current index, statistics, stop flag, tempo
\* and every dispatch loop are as before the call.
C21_RefusedStartChangesNothing ==
    [][(Calling("start") /\ state = "running") =>
          /\ ~calls'[Len(calls')].effect
          /\ UNCHANGED <<state, current_route, current_index, stats, stop_event,
                         is_paused, thread, loops, nstarts, obsLog>>]_vars

C21_Witness ==
    /\ calls # <<>>
    /\ calls[Len(calls)] = Call("start", FALSE)
    /\ state = "running"
    /\ stats.dispatched_count >= 1
    /\ current_index >= 1
    /\ \E r \in LoopIds : Alive(r)

\* C22: a start() that begins a run was called while the state was Idle.
C22_StartOnlyFromIdle ==
    [][(Calling("start") /\ calls'[Len(calls')].effect) => state = "idle"]_vars

\* C23: while a stop() that found the Dispatcher Idle is in progress, the
\* state stays Idle and no observer is handed an event.
C23_StopOnIdleIsNoOp ==
    [][ctl = "stop_idle_join" => (state' = "idle" /\ obsLog' = obsLog)]_vars

----------------------------------------------------------------------------
(* Scheduler properties *)

\* C24: once the tempo is started, elapsed_seconds is the wall-clock time
\* since start() minus the time spent paused since then; so it does not
\* advance between pause() and the matching resume(), and a repeated pause()
\* or resume() counts for nothing.
C24_ElapsedExcludesPaused ==
    (Constructed /\ tempo.start_time # NoTime) =>
        ElapsedSeconds(tempo, is_paused, clock.now)
            = (clock.now - tempo.start_time) - clock.paused

C24_Witness ==
    /\ Constructed
    /\ tempo.start_time # NoTime
    /\ tempo.paused_duration >= 1
    /\ is_paused
    /\ clock.now > tempo.pause_time
    /\ ElapsedSeconds(tempo, is_paused, clock.now) >= 1
    /\ clock.paused >= 2

\* The positions of the schedule not yet dispatched.
Pending == IF run.pc \in {"wait", "sleep"} THEN run.pos..Len(run.sched) ELSE {}

\* C27: while a route is running under a positive interval, the junctions not
\* yet dispatched are scheduled one current interval apart.
C27_PendingSpacedByInterval ==
    config.junction_interval_seconds > 0 =>
        \A k \in Pending : k + 1 \in Pending =>
            run.sched[k + 1] - run.sched[k] = config.junction_interval_seconds

\* C28: the configured interval of a constructed Dispatcher is strictly
\* positive in every reachable state.
C28_IntervalPositive == Constructed => config.junction_interval_seconds > 0

----------------------------------------------------------------------------
(* Dispatcher properties: the async variant *)

NeverStopped == \A k \in DOMAIN calls : calls[k].op # "stop"

\* C25: as with the blocking dispatch loop, a run of the async variant in
\* which stop() was never called ends only when every junction of its
\* schedule was handed to the observers, whatever pause() and resume() did.
C25_AsyncEndsLikeBlocking ==
    \A r \in LoopIds :
        (loops[r].pc = "exited" /\ NeverStopped) =>
            Len(obsLog[1][r]) = Len(loops[r].sched)

----------------------------------------------------------------------------
(* process_batch properties *)

\* C26: the list process_batch returns has one entry per junction, the i-th
\* being the JunctionResults built for junctions[i] with junction_index i,
\* whatever the order of completion and the size of the pool; and when the
\* call is over on_complete was invoked exactly once per junction.
C26_BatchOrderedByIndex ==
    /\ batch.pc = "returned" =>
          /\ Len(batch.results) = Len(batch.jobs)
          /\ \A i \in DOMAIN batch.jobs :
                batch.results[i] = <<[junction |-> i, junction_index |-> i - 1]>>
    /\ (batch.pc \in {"returned", "raised"} /\ batch.on_complete # "none") =>
          \A i \in DOMAIN batch.jobs : batch.jobs[i].calls = 1
    /\ \A i \in DOMAIN batch.jobs : batch.jobs[i].calls <= 1

C26_Witness ==
    /\ batch.pc = "returned"
    /\ batch.on_complete = "ok"
    /\ batch.max_concurrent = MaxConcurrent
    /\ Len(batch.jobs) = MaxBatch
    /\ batch.order[1] # 1
    /\ batch.order[Len(batch.order)] # Len(batch.order)

----------------------------------------------------------------------------
(* Dispatcher properties: pause and resume *)

\* A pause() that took effect and was not followed by any resume() call.
PauseOutstanding ==
    \E k \in DOMAIN calls :
        /\ calls[k] = Call("pause", TRUE)
        /\ \A k2 \in (k + 1)..Len(calls) : calls[k2].op # "resume"

\* Loop r has ended after handing every junction of its schedule to the
\* observers (its last step set the state to Completed).
RunComplete(r) ==
    /\ loops[r].pc = "exited"
    /\ Len(obsLog[1][r]) = Len(loops[r].sched)

PauseResumeGuarded ==
    /\ Calling("pause") =>
           IF state = "running" THEN state' = "paused"
                                ELSE UNCHANGED <<state, is_paused, tempo>>
    /\ Calling("resume") =>
           IF state = "paused" THEN state' = "running"
                               ELSE UNCHANGED <<state, is_paused, tempo>>

\* Between calls, the Scheduler is paused exactly when the state is Paused.
PausedTogether == ctl = "idle" => (is_paused <=> state = "paused")

\* C30: pause() changes the state only from Running to Paused and resume()
\* only from Paused to Running; in any other state each leaves the state and
\* the Scheduler's paused flag and paused duration unchanged; and the
\* Scheduler is paused exactly when the Dispatcher state is Paused.
C30_PauseResumeInStep == [][PauseResumeGuarded /\ PausedTogether']_vars

----------------------------------------------------------------------------
(* Evaluation Stage properties: the timeout budget *)

\* C31: the joins of one process() share one budget: no join is given time
\* beyond the configured timeout counted from the start of processing.
C31_JoinsWithinBudget ==
    joins.pc = "joining" => joins.deadline <= joins.start_timer + joins.timeout

----------------------------------------------------------------------------
(* Evaluation Stage properties: the result channel *)

\* C32: every contestant of invocation j pushes to the channel made by j,
\* which never holds more than QUEUE_SIZE results, and no push has to wait
\* for room in it.
C32_OwnChannelNeverBlocks ==
    /\ \A q \in DOMAIN queues : Len(queues[q]) <= QUEUE_SIZE
    /\ \A j \in Invocations, k \in Kinds :
          workers[j][k].pc # "none" =>
              /\ workers[j][k].q = j
              /\ workers[j][k].pc = "running" =>
                     Len(queues[workers[j][k].q]) < QUEUE_SIZE

----------------------------------------------------------------------------
(* Scheduler properties: the schedule by mode *)

NonDecreasing(seq) == \A i, k \in DOMAIN seq : i <= k => seq[i] <= seq[k]

\* The scheduled time of the junction at position i (index i - 1) of the run,
\* as the mode in force at its start defines it.
ScheduledTimeByMode(i) ==
    IF run.cfg.mode = "real_time"
    THEN tempo.start_time
           + Max(0, (run.durs[i] \div run.cfg.time_scale) - run.cfg.pre_dispatch_seconds)
    ELSE tempo.start_time + (i - 1) * run.cfg.junction_interval_seconds

\* C33: the schedule computed at start gives each junction the time its mode
\* defines (fixed interval, also for distance-based and manual; driving time
\* for real time), and for non-decreasing cumulative durations the times are
\* non-decreasing in the junction index.
C33_ScheduleByMode ==
    run.pc = "scheduled" =>
        /\ \A i \in DOMAIN run.sched : run.sched[i] = ScheduledTimeByMode(i)
        /\ NonDecreasing(run.durs) => NonDecreasing(run.sched)

----------------------------------------------------------------------------
(* Arbiter properties: the reasoning *)

\* The winner's margin over the best of the other valid candidates of cs, the
\* winner d.winner standing at one position of the valid candidates.
Margin(cs, d) ==
    LET valid == Valid(cs)
        w == CHOOSE i \in DOMAIN valid :
                 /\ valid[i] = d.winner
                 /\ \A i2 \in DOMAIN valid : valid[i2] = d.winner => i <= i2
        rest == {CalculateScore(valid[i]) : i \in DOMAIN valid \ {w}}
    IN CalculateScore(d.winner) - (CHOOSE m \in rest : \A n \in rest : n <= m)

\* C34: with at least two valid candidates the reasoning says "decisively"
\* exactly when the winner's margin over the best other valid candidate is
\* above 10 points and "narrowly wins" otherwise; with a single valid
\* candidate it says the winner wins by default.
C34_ReasoningByMargin ==
    (decision # <<>> /\ Valid(contestants) # <<>>) =>
        /\ decision[1].raised = "none"
        /\ \E i \in DOMAIN Valid(contestants) : decision[1].winner = Valid(contestants)[i]
        /\ decision[1].reasoning =
              IF Len(Valid(contestants)) = 1 THEN "wins by default"
              ELSE IF Margin(contestants, decision[1]) > Points(10)
                   THEN "wins decisively" ELSE "narrowly wins"

----------------------------------------------------------------------------
(* Dispatcher properties: one loop at a time *)

\* The dispatch loops that have been launched and have not exited.
LiveLoops == {r \in LoopIds : Alive(r)}

\* C35: at most one dispatch loop of the Dispatcher is live at any time.
C35_OneLiveLoop == Cardinality(LiveLoops) <= 1

----------------------------------------------------------------------------
(* Evaluation Stage properties: whose results are collected *)

\* C36: every result in a returned JunctionResults was produced by a
\* contestant of that same invocation, for its junction, and was pushed before
\* the invocation drained its channel.
C36_CollectsOnlyOwnResults ==
    \A j \in Returned :
        \A i \in DOMAIN invs[j].result.collected :
            LET c == invs[j].result.collected[i]
            IN /\ c.junction_id = j
               /\ c.agent_type \in invs[j].pushed
               /\ c = OwnResult(j, c.agent_type)

----------------------------------------------------------------------------
(* Aggregator properties: the route-complete callback *)

\* How often _finalize_report has invoked the route-complete callback for
\* run r: once by each unit of an event flagged is_last that is through with
\* it, and once by the caller of a blocking start() that has returned.
RouteCallbacks(r) ==
    Cardinality({u \in DOMAIN units :
                    units[u].run = r /\ units[u].is_last /\ units[u].pc = "done"})
        + (IF starters[r] = "returned" THEN 1 ELSE 0)

\* The units of run r whose result is not yet appended to a report.
Unappended(r) == {u \in DOMAIN units : units[u].run = r /\ units[u].pc = "process"}

\* C37: the route-complete callback is invoked once per route, in blocking
\* and non-blocking mode alike, and only after the result of every dispatched
\* junction has been appended.
C37_RouteCallbackOnce ==
    [][\A r \in LoopIds :
          RouteCallbacks(r)' > RouteCallbacks(r) =>
              /\ RouteCallbacks(r)' = 1
              /\ Unappended(r) = {}]_vars

----------------------------------------------------------------------------
(* Arbiter properties: the order of arrival *)

\* The lists that hold the results of cs in another order.
Reordered(cs) ==
    {[i \in DOMAIN cs |-> cs[f[i]]] : f \in Permutations(DOMAIN cs)}

\* The results of three contestants of different kinds, as one invocation's
\* channel delivers them.
OneOfEachKind(cs) ==
    /\ Len(cs) = Len(KindOrder)
    /\ {cs[i].agent_type : i \in DOMAIN cs} = Kinds

\* C38: for the results of the three contestants, every order of arrival
\* gives the same winner kind and the same winning score.
C38_OrderOfArrivalIrrelevant ==
    (decision # <<>> /\ OneOfEachKind(contestants)) =>
        \A other \in Reordered(contestants) :
            /\ Evaluate(other).winner_type = decision[1].winner_type
            /\ Evaluate(other).winning_score = decision[1].winning_score

----------------------------------------------------------------------------
(* Scheduler properties: the schedule across a pause *)

\* The run waits for a junction whose scheduled time has come, unpaused.
DueUnpaused ==
    /\ run.pc \in {"wait", "sleep"}
    /\ ~is_paused
    /\ clock.now >= run.sched[run.pos]

\* C39: pause() and resume() leave the schedule of a run as it was computed;
\* a junction whose scheduled time has passed is dispatched without waiting
\* for the clock once the run is not paused; and the events come in index
\* order, each with the scheduled time computed at the start.
C39_PauseKeepsSchedule ==
    [][/\ (run.pc # "idle" /\ is_paused' # is_paused) => run.sched' = run.sched
       /\ DueUnpaused => ENABLED (RunWait \/ RunDispatch)
       /\ \A k \in DOMAIN run.events' :
             /\ run.events'[k].junction_index = k - 1
             /\ run.events'[k].scheduled_time = run.sched'[k]]_vars

C39_Witness ==
    /\ Len(run.sched) = MaxJunctions
    /\ Len(run.events) = MaxJunctions
    /\ ~is_paused
    /\ tempo.paused_duration >= 1
    /\ \E k \in DOMAIN run.events :
          /\ run.events[k].dispatch_time > run.events[k].scheduled_time
          /\ tempo.pause_time = NoTime

----------------------------------------------------------------------------
(* Aggregator properties: whose wins are counted *)

\* The junction of this JunctionResults was won by a successful result.
WonByValid(jr) == jr.decision # <<>> /\ IsSuccess(jr.decision[1].winner)

\* C40: adding a returned JunctionResults to a FinalReport counts one win
\* exactly when the junction was won by a successful contestant result; a
\* junction whose collected results all failed counts no win.
C40_WinsOnlyForValid ==
    \A j \in Returned :
        LET rep == AddJunctionResult(NewReport(1), invs[j].result)
        IN rep.video_wins + rep.music_wins + rep.history_wins
               = (IF WonByValid(invs[j].result) THEN 1 ELSE 0)

============================================================================
